---- MODULE Spec2Model ----
(***************************************************************************)
(* Verification model of the employee-wellbeing analytics backend.         *)
(*                                                                         *)
(* The backend has several independent pieces of state.  Each is modelled  *)
(* by its own group of variables and its own specification:                *)
(*   SpecUpload   upload_tasks and the background CSV job (upload.py)      *)
(*   SpecMonitor  alert de-duplication sets, checks run on the event loop  *)
(*   SpecThreads  the same checks run from worker threads (db_sync.py)     *)
(*   SpecWS       ConnectionManager and its broadcast (websocket_alerts)   *)
(*   SpecNarr     the narrative-generation call sites                      *)
(*   SpecCache    the two result caches in front of the store              *)
(*   SpecSnap     the latest-submission-per-employee snapshot              *)
(*   SpecSync     the sync of the Employees table                          *)
(*   SpecRisk     the risk labels and their combination                    *)
(*   SpecFilter   the filter and aggregation of GET /metrics/              *)
(*   SpecRates    the rates of a survey row                                *)
(*   SpecTemporal the temporal fields derived from submission_date         *)
(*   SpecDims     the question columns taken for a dimension               *)
(*   SpecDept     the department means of a sync                           *)
(*   SpecEnps     the eNPS metrics of an aggregated group                  *)
(*   SpecAlias    the objects handed out by the cached fetches             *)
(*   SpecHs       the handshake of /ws/alerts beside the broadcasts        *)
(*   SpecAlert    the alerts of a check and the sessions they reach        *)
(* A specification leaves the variables of the other groups unchanged.     *)
(***************************************************************************)
EXTENDS Integers, Sequences, FiniteSets, TLC

VARIABLES
    \* ---- upload.py
    upload_tasks,       \* task id -> status ("absent" when the id is not a key)
    job,                \* task id -> position and locals of process_file_background
    survey_response,    \* task id -> rows of the task's file stored in Survey_Response
    rejected,           \* task id -> rows of the task's file whose put_item raised
    \* ---- risk_monitor.py
    departments,        \* Departments table: department_id -> overall_risk
    employees,          \* Employees table: Employee_ID -> stress_rate (NoneRate: no value)
    _alerted_departments,
    _alerted_employees,
    chk,                \* running check -> position and locals of check_*()
    lastEvt,            \* id -> what the checks last did with it (see Evt)
    \* ---- websocket_alerts.py
    active_connections, \* manager.active_connections, a list
    sock,               \* websocket -> position of its websocket_alerts_endpoint
    up,                 \* websocket -> the client is still there (a send succeeds)
    bc,                 \* broadcast -> position and locals of ConnectionManager.broadcast
    droppedBy,          \* websocket -> who took it off the list: "handler", a broadcast
    \* ---- narrative generation (insight.py, departments.py, recommendations.py, employees.py)
    narr,               \* the last narrative request: call site, generator text, outcome
    \* ---- the caches (risk_engine.py, metrics.py)
    store,              \* version of the contents of the key-value store
    now,                \* time.time(), in seconds
    _data_cache,        \* cached_data: key -> entry or NoEntry
    fastapi_cache,      \* @cache of the endpoints: endpoint -> entry or NoEntry
    clears,             \* number of cache-clear calls so far
    answered,           \* endpoints answered since the last cache-clear call
    resp,               \* the last response of an aggregation endpoint
    \* ---- the snapshot (metrics.py, risk_engine.py, db_sync.py)
    survey_rows,        \* rows of Survey_Response, in scan order
    snap,               \* the last snapshot taken: site, filtered rows, snapshot rows
    \* ---- the employee sync (upload.py, db_sync.py)
    emp_metrics,        \* Employees table: Employee_ID -> field -> stored value
    syncs,              \* number of syncs run so far
    last_sync,          \* the last sync: its site and the rows of its file
    \* ---- the risk labels (team.py, departments.py, upload.py)
    risk_call,          \* the labelling call in progress: function, arguments, result
    \* ---- the metrics filter (metrics.py)
    metrics_call,       \* the filter_metrics call in progress: arguments and result
    \* ---- the row metrics (risk_engine_helpers.py)
    rates_call,         \* the rate calculation in progress: function, frame, result
    \* ---- the temporal enrichment (risk_engine_helpers.py, upload.py)
    temporal_call,      \* the enrichment in progress: site, date, derived fields
    \* ---- the columns of a dimension (risk_engine_helpers.py, upload.py)
    dims_call,          \* the dimension calculation in progress: site, columns, columns used
    \* ---- the department means (upload.py, db_sync.py)
    dept_sync,          \* the department sync in progress: site, file, mean written
    enps_call,          \* the aggregation of a group in progress: scores, eNPS, counts
    heap,               \* the DataFrame objects: id -> free, fetched or mutated
    cache_ref,          \* cached_data: key -> reference to an object and its timestamp
    clock,              \* time.time() of the fetches
    returned,           \* the frame the caller of the last cached fetch holds
    hs_connections,     \* manager.active_connections during the handshakes
    hs_sock,            \* the endpoint of each socket: new, accepting, appended, open
    inbox,              \* the messages each client has received, in order
    cast,               \* the broadcast of each origin: position in its loop
    casts,              \* the number of broadcasts started
    risk_of,            \* Departments table: department -> overall_risk
    alerted,            \* _alerted_departments beside the sessions
    sessions,           \* the connected sessions of the manager
    outbox,             \* the alerts of a check not yet broadcast
    sent_to             \* department -> sessions its alert was sent to

uploadVars == <<upload_tasks, job, survey_response, rejected>>
monVars == <<departments, employees, _alerted_departments, _alerted_employees,
             chk, lastEvt>>

wsVars == <<active_connections, sock, up, bc, droppedBy>>

narrVars == <<narr>>

cacheVars == <<store, now, _data_cache, fastapi_cache, clears, answered, resp>>

snapVars == <<survey_rows, snap>>

syncVars == <<emp_metrics, syncs, last_sync>>

riskVars == <<risk_call>>

filterVars == <<metrics_call>>

ratesVars == <<rates_call>>

temporalVars == <<temporal_call>>

dimsVars == <<dims_call>>

deptVars == <<dept_sync>>

enpsVars == <<enps_call>>

aliasVars == <<heap, cache_ref, clock, returned>>

hsVars == <<hs_connections, hs_sock, inbox, cast, casts>>

alertVars == <<risk_of, alerted, sessions, outbox, sent_to>>

vars == <<uploadVars, monVars, wsVars, narrVars, cacheVars, snapVars,
    syncVars, riskVars, filterVars, ratesVars, temporalVars, dimsVars,
    deptVars, enpsVars, aliasVars, hsVars, alertVars>>

otherThanUpload == <<monVars, wsVars, narrVars, cacheVars, snapVars,
    syncVars, riskVars, filterVars, ratesVars, temporalVars, dimsVars,
    deptVars, enpsVars, aliasVars, hsVars, alertVars>>
otherThanMon == <<uploadVars, wsVars, narrVars, cacheVars, snapVars,
    syncVars, riskVars, filterVars, ratesVars, temporalVars, dimsVars,
    deptVars, enpsVars, aliasVars, hsVars, alertVars>>
otherThanWS == <<uploadVars, monVars, narrVars, cacheVars, snapVars,
    syncVars, riskVars, filterVars, ratesVars, temporalVars, dimsVars,
    deptVars, enpsVars, aliasVars, hsVars, alertVars>>
otherThanNarr == <<uploadVars, monVars, wsVars, cacheVars, snapVars,
    syncVars, riskVars, filterVars, ratesVars, temporalVars, dimsVars,
    deptVars, enpsVars, aliasVars, hsVars, alertVars>>
otherThanCache == <<uploadVars, monVars, wsVars, narrVars, snapVars,
    syncVars, riskVars, filterVars, ratesVars, temporalVars, dimsVars,
    deptVars, enpsVars, aliasVars, hsVars, alertVars>>
otherThanSnap == <<uploadVars, monVars, wsVars, narrVars, cacheVars,
    syncVars, riskVars, filterVars, ratesVars, temporalVars, dimsVars,
    deptVars, enpsVars, aliasVars, hsVars, alertVars>>
otherThanSync == <<uploadVars, monVars, wsVars, narrVars, cacheVars,
    snapVars, riskVars, filterVars, ratesVars, temporalVars, dimsVars,
    deptVars, enpsVars, aliasVars, hsVars, alertVars>>
otherThanRisk == <<uploadVars, monVars, wsVars, narrVars, cacheVars,
    snapVars, syncVars, filterVars, ratesVars, temporalVars, dimsVars,
    deptVars, enpsVars, aliasVars, hsVars, alertVars>>
otherThanFilter == <<uploadVars, monVars, wsVars, narrVars, cacheVars,
    snapVars, syncVars, riskVars, ratesVars, temporalVars, dimsVars,
    deptVars, enpsVars, aliasVars, hsVars, alertVars>>
otherThanRates == <<uploadVars, monVars, wsVars, narrVars, cacheVars,
    snapVars, syncVars, riskVars, filterVars, temporalVars, dimsVars,
    deptVars, enpsVars, aliasVars, hsVars, alertVars>>
otherThanTemporal == <<uploadVars, monVars, wsVars, narrVars, cacheVars,
    snapVars, syncVars, riskVars, filterVars, ratesVars, dimsVars, deptVars,
    enpsVars, aliasVars, hsVars, alertVars>>
otherThanDims == <<uploadVars, monVars, wsVars, narrVars, cacheVars,
    snapVars, syncVars, riskVars, filterVars, ratesVars, temporalVars,
    deptVars, enpsVars, aliasVars, hsVars, alertVars>>
otherThanDept == <<uploadVars, monVars, wsVars, narrVars, cacheVars,
    snapVars, syncVars, riskVars, filterVars, ratesVars, temporalVars,
    dimsVars, enpsVars, aliasVars, hsVars, alertVars>>
otherThanEnps == <<uploadVars, monVars, wsVars, narrVars, cacheVars,
    snapVars, syncVars, riskVars, filterVars, ratesVars, temporalVars,
    dimsVars, deptVars, aliasVars, hsVars, alertVars>>
otherThanAlias == <<uploadVars, monVars, wsVars, narrVars, cacheVars,
    snapVars, syncVars, riskVars, filterVars, ratesVars, temporalVars,
    dimsVars, deptVars, enpsVars, hsVars, alertVars>>
otherThanHs == <<uploadVars, monVars, wsVars, narrVars, cacheVars, snapVars,
    syncVars, riskVars, filterVars, ratesVars, temporalVars, dimsVars,
    deptVars, enpsVars, aliasVars, alertVars>>
otherThanAlert == <<uploadVars, monVars, wsVars, narrVars, cacheVars,
    snapVars, syncVars, riskVars, filterVars, ratesVars, temporalVars,
    dimsVars, deptVars, enpsVars, aliasVars, hsVars>>

(***************************************************************************)
(* Bounds of the model.                                                    *)
(***************************************************************************)
MaxRows == 2
MaxText == 3
MaxWrites == 2
MaxTicks == 3
MaxClears == 2
MaxFrame == 3
MaxDate == 2
MaxFile == 2
MaxSyncs == 2
MaxGroups == 2

Range(s) == {s[i] : i \in DOMAIN s}

(***************************************************************************)
(* upload.py: upload_tasks, upload_csv, process_file_background            *)
(***************************************************************************)
TaskIds == {"t1", "t2"}

NoResult == [total_rows_processed |-> -1, total_rows_saved |-> -1]

\* Locals of a job that is not running.
NoJob ==
    [pc |-> "none", total_rows |-> 0, idx |-> 0, saved_count |-> 0,
     hasDept |-> FALSE, hasBurnout |-> FALSE, result |-> NoResult]

UploadInit ==
    /\ upload_tasks = [t \in TaskIds |-> "absent"]
    /\ job = [t \in TaskIds |-> NoJob]
    /\ survey_response = [t \in TaskIds |-> {}]
    /\ rejected = [t \in TaskIds |-> {}]

\* The except branch without the status assignment.
FailTaskKeepsStatus(t) ==
    /\ job' = [job EXCEPT ![t] = [NoJob EXCEPT !.pc = "done"]]
    /\ UNCHANGED upload_tasks

\* The except branch of process_file_background: status "failed"; the
\* function returns and its locals are gone.
FailTask(t) ==
    /\ upload_tasks' = [upload_tasks EXCEPT ![t] = "failed"]
    /\ job' = [job EXCEPT ![t] = [NoJob EXCEPT !.pc = "done"]]

\* POST /upload/csv with a .csv file that is copied successfully (otherwise
\* an HTTPException is raised before upload_tasks is touched).  task_id is a
\* fresh uuid4; the job is queued with background_tasks.add_task.
upload_csv(t) ==
    /\ upload_tasks[t] = "absent"
    /\ upload_tasks' = [upload_tasks EXCEPT ![t] = "pending"]
    /\ job' = [job EXCEPT ![t] = [NoJob EXCEPT !.pc = "queued"]]
    /\ UNCHANGED <<survey_response, rejected>>

ProcessStartSkipsStatus(t) ==
    /\ job[t].pc = "queued"
    /\ job' = [job EXCEPT ![t].pc = "read"]
    /\ UNCHANGED <<upload_tasks, survey_response, rejected>>

\* First statement of the job: status "processing".
ProcessStart(t) ==
    /\ job[t].pc = "queued"
    /\ upload_tasks' = [upload_tasks EXCEPT ![t] = "processing"]
    /\ job' = [job EXCEPT ![t].pc = "read"]
    /\ UNCHANGED <<survey_response, rejected>>

\* pd.read_csv, calculate_row_metrics, the temporal loop and
\* calculate_dimensions; an exception of these goes to the except branch.
\* n is len(df).
ProcessRead(t, ok, n) ==
    /\ job[t].pc = "read"
    /\ IF ok
         THEN /\ job' = [job EXCEPT ![t].pc = IF n = 0 THEN "employees" ELSE "save",
                                    ![t].total_rows = n]
              /\ UNCHANGED upload_tasks
         ELSE FailTask(t)
    /\ UNCHANGED <<survey_response, rejected>>

SaveRowAbortsOnFailure(t, writeOk) ==
    /\ job[t].pc = "save"
    /\ IF writeOk
         THEN /\ job' = [job EXCEPT ![t].idx = @ + 1, ![t].saved_count = @ + 1,
                           ![t].pc = IF job[t].idx + 1 = job[t].total_rows
                                       THEN "employees" ELSE "save"]
              /\ survey_response' = [survey_response EXCEPT ![t] = @ \cup {job[t].idx + 1}]
              /\ UNCHANGED rejected
         ELSE /\ job' = [job EXCEPT ![t].idx = @ + 1, ![t].pc = "employees"]
              /\ rejected' = [rejected EXCEPT ![t] = @ \cup {job[t].idx + 1}]
              /\ UNCHANGED survey_response
    /\ UNCHANGED upload_tasks

\* One iteration of the save loop: the item is built and add_to_dynamodb is
\* called; saved_count is incremented after the call returned; an exception
\* is swallowed by `except Exception: continue`.
SaveRow(t, writeOk) ==
    /\ job[t].pc = "save"
    /\ IF writeOk
         THEN /\ job' = [job EXCEPT ![t].idx = @ + 1, ![t].saved_count = @ + 1,
                           ![t].pc = IF job[t].idx + 1 = job[t].total_rows
                                       THEN "employees" ELSE "save"]
              /\ survey_response' = [survey_response EXCEPT ![t] = @ \cup {job[t].idx + 1}]
              /\ UNCHANGED rejected
         ELSE /\ job' = [job EXCEPT ![t].idx = @ + 1,
                           ![t].pc = IF job[t].idx + 1 = job[t].total_rows
                                       THEN "employees" ELSE "save"]
              /\ rejected' = [rejected EXCEPT ![t] = @ \cup {job[t].idx + 1}]
              /\ UNCHANGED survey_response
    /\ UNCHANGED upload_tasks

\* update_employees_from_survey: every update_item is inside its own try.
UpdateEmployees(t) ==
    /\ job[t].pc = "employees"
    /\ job' = [job EXCEPT ![t].pc = "departments"]
    /\ UNCHANGED <<upload_tasks, survey_response, rejected>>

\* update_departments_from_survey on a frame with (dept) or without a
\* department column and with (burnout) or without a burnout_rate column:
\* returns early without a department column; groupby().agg() raises
\* KeyError without a burnout_rate column; the Departments scan is outside
\* any try.
UpdateDepartments(t, dept, burnout, scanOk) ==
    /\ job[t].pc = "departments"
    /\ IF dept /\ (~burnout \/ ~scanOk)
         THEN FailTask(t)
         ELSE /\ job' = [job EXCEPT ![t].pc = "sample", ![t].hasDept = dept,
                                    ![t].hasBurnout = burnout]
              /\ UNCHANGED upload_tasks
    /\ UNCHANGED <<survey_response, rejected>>

\* get_partial_data_from_dynamodb, the result and status "completed"; the
\* function returns and only the result is kept.
ProcessFinish(t, scanOk) ==
    /\ job[t].pc = "sample"
    /\ IF scanOk
         THEN /\ upload_tasks' = [upload_tasks EXCEPT ![t] = "completed"]
              /\ job' = [job EXCEPT ![t] = [NoJob EXCEPT !.pc = "done",
                           !.hasDept = job[t].hasDept, !.hasBurnout = job[t].hasBurnout,
                           !.result = [total_rows_processed |-> job[t].total_rows,
                                       total_rows_saved |-> job[t].saved_count]]]
         ELSE FailTask(t)
    /\ UNCHANGED <<survey_response, rejected>>

UploadCsvStep == \E t \in TaskIds : upload_csv(t) /\ UNCHANGED otherThanUpload
ProcessStartStep == \E t \in TaskIds : ProcessStart(t) /\ UNCHANGED otherThanUpload
ProcessReadStep ==
    \E t \in TaskIds, ok \in BOOLEAN, n \in 0..MaxRows :
        ProcessRead(t, ok, n) /\ UNCHANGED otherThanUpload
SaveRowStep ==
    \E t \in TaskIds, writeOk \in BOOLEAN : SaveRow(t, writeOk) /\ UNCHANGED otherThanUpload
UpdateEmployeesStep == \E t \in TaskIds : UpdateEmployees(t) /\ UNCHANGED otherThanUpload
UpdateDepartmentsStep ==
    \E t \in TaskIds, dept \in BOOLEAN, burnout \in BOOLEAN, scanOk \in BOOLEAN :
        UpdateDepartments(t, dept, burnout, scanOk) /\ UNCHANGED otherThanUpload
ProcessFinishStep ==
    \E t \in TaskIds, scanOk \in BOOLEAN : ProcessFinish(t, scanOk) /\ UNCHANGED otherThanUpload

NextUpload ==
    \/ UploadCsvStep
    \/ ProcessStartStep
    \/ ProcessReadStep
    \/ SaveRowStep
    \/ UpdateEmployeesStep
    \/ UpdateDepartmentsStep
    \/ ProcessFinishStep

(***************************************************************************)
(* C1: the status of a task only moves absent -> pending -> processing ->  *)
(* completed | failed: upload_csv creates it as pending, the job sets it   *)
(* to processing before any row is handled, and a completed or failed      *)
(* status never changes again.                                             *)
(***************************************************************************)
TaskMoves(a, b) ==
    \/ a = b
    \/ a = "absent" /\ b = "pending"
    \/ a = "pending" /\ b = "processing"
    \/ a = "processing" /\ b \in {"completed", "failed"}

RowsHandled(t) == survey_response[t] \cup rejected[t]

C1_StatusLifecycle ==
    [][\A t \in TaskIds :
          /\ TaskMoves(upload_tasks[t], upload_tasks'[t])
          /\ (job'[t].pc # "none" /\ job[t].pc = "none") => upload_tasks'[t] = "pending"
          /\ RowsHandled(t)' # {} => upload_tasks'[t] \in {"processing", "completed", "failed"}
      ]_vars

C1_Witness ==
    \E t, u \in TaskIds :
        /\ upload_tasks[t] = "completed" /\ RowsHandled(t) # {}
        /\ upload_tasks[u] = "failed" /\ RowsHandled(u) # {}

(***************************************************************************)
(* C2: a failed store write for one row does not abort the batch: every    *)
(* row of the file is attempted, total_rows_saved is exactly the number of *)
(* rows whose write succeeded, and total_rows_processed - total_rows_saved *)
(* is the number of failed writes.                                         *)
(***************************************************************************)
C2_SavedCountExact ==
    \A t \in TaskIds :
        /\ job[t].pc \in {"employees", "departments", "sample"} =>
              /\ RowsHandled(t) = 1..job[t].total_rows
              /\ job[t].saved_count = Cardinality(survey_response[t])
        /\ upload_tasks[t] = "completed" =>
              /\ job[t].result.total_rows_saved = Cardinality(survey_response[t])
              /\ job[t].result.total_rows_processed - job[t].result.total_rows_saved
                    = Cardinality(rejected[t])
              /\ RowsHandled(t) = 1..job[t].result.total_rows_processed

\* A completed task whose first write failed and whose second succeeded.
C2_Witness ==
    \E t \in TaskIds :
        /\ upload_tasks[t] = "completed"
        /\ 1 \in rejected[t]
        /\ 2 \in survey_response[t]

\* A step of the background job of task t, once BackgroundTasks runs it.
JobStep(t) ==
    \/ ProcessStart(t)
    \/ \E ok \in BOOLEAN, n \in 0..MaxRows : ProcessRead(t, ok, n)
    \/ \E writeOk \in BOOLEAN : SaveRow(t, writeOk)
    \/ UpdateEmployees(t)
    \/ \E dept \in BOOLEAN, burnout \in BOOLEAN, scanOk \in BOOLEAN :
          UpdateDepartments(t, dept, burnout, scanOk)
    \/ \E scanOk \in BOOLEAN : ProcessFinish(t, scanOk)

\* A job that is run goes on until it returns: each of its statements ends.
JobsRun == \A t \in TaskIds : WF_vars(JobStep(t) /\ UNCHANGED otherThanUpload)

(***************************************************************************)
(* C24: every upload task whose background job is run eventually reaches   *)
(* status completed or failed, whatever exception occurs while reading,    *)
(* computing or writing: it does not stay pending or processing forever.   *)
(***************************************************************************)
C24_TaskEventuallyEnds ==
    \A t \in TaskIds :
        (upload_tasks[t] \in {"pending", "processing"})
            ~> (upload_tasks[t] \in {"completed", "failed"})

\* A task that ended failed after an exception past the save loop, with
\* rows already saved.
C24_Witness ==
    \E t \in TaskIds :
        /\ upload_tasks[t] = "failed"
        /\ job[t].pc = "done"
        /\ Cardinality(survey_response[t]) = MaxRows

(***************************************************************************)
(* C25: an upload of a readable survey CSV with a department column and    *)
(* the question columns but no burnout_rate column, during which every     *)
(* store read and write succeeds, ends completed, never failed.            *)
(***************************************************************************)
C25_CleanUploadCompletes ==
    [][\A t \in TaskIds :
          (/\ job[t].pc = "departments"
           /\ rejected[t] = {}
           /\ UpdateDepartments(t, TRUE, FALSE, TRUE))
              => upload_tasks'[t] # "failed"
      ]_vars


(***************************************************************************)
(* risk_monitor.py: check_department_risks, check_employee_stress,         *)
(* reset_alert_state; db_sync.py: _trigger_*_check                         *)
(***************************************************************************)
Depts == {"d1", "d2"}
Emps == {"e1"}
Checkers == {"c1", "c2"}

NoneRate == -1
StressThreshold == 40
Risks == {"critical", "healthy"}
Rates == {NoneRate, StressThreshold, StressThreshold + 1}

\* The order in which table.scan() returns the items.
ScanOrder(kind) == IF kind = "dept" THEN <<"d1", "d2">> ELSE <<"e1">>

Idle == [pc |-> "idle", kind |-> "dept", snap |-> <<>>, idx |-> 0,
         decision |-> "skip", alerts |-> <<>>]

MonInit ==
    /\ departments = [d \in Depts |-> "healthy"]
    /\ employees = [e \in Emps |-> NoneRate]
    /\ _alerted_departments = {}
    /\ _alerted_employees = {}
    /\ chk = [c \in Checkers |-> Idle]
    /\ lastEvt = [x \in Depts \cup Emps |-> "none"]

\* The if / elif of the loop body of check_department_risks.
DeptBranchForgetsRisk(overall_risk, inSet) ==
    IF overall_risk = "critical" /\ ~inSet THEN "alert"
    ELSE IF inSet THEN "remove"
    ELSE "skip"

DeptBranch(overall_risk, inSet) ==
    IF overall_risk = "critical" /\ ~inSet THEN "alert"
    ELSE IF overall_risk # "critical" /\ inSet THEN "remove"
    ELSE "skip"

\* The continue / if / elif of the loop body of check_employee_stress.
EmpBranch(stress_rate, inSet) ==
    IF stress_rate = NoneRate THEN "skip"
    ELSE IF stress_rate > StressThreshold /\ ~inSet THEN "alert"
    ELSE IF stress_rate <= StressThreshold /\ inSet THEN "remove"
    ELSE "skip"

Alerted(kind) == IF kind = "dept" THEN _alerted_departments ELSE _alerted_employees

\* The scanned value of an item.
Scanned(kind, x) == IF kind = "dept" THEN departments[x] ELSE employees[x]

Branch(kind, value, inSet) ==
    IF kind = "dept" THEN DeptBranch(value, inSet) ELSE EmpBranch(value, inSet)

\* An item the check sees as not critical (department) or with a
\* stress_rate <= 40 (employee).
Calm(kind, value) ==
    IF kind = "dept" THEN value # "critical"
    ELSE value # NoneRate /\ value <= StressThreshold

\* What a check that scanned an item with this value did with it: "alert"
\* (emitted an alert), "held" (still critical or stressed and already in the
\* set: nothing emitted), "cleared" (seen calm, removed from the set), "calm"
\* (seen calm, was not in the set); old when the item was skipped.
Evt(kind, value, inSet, old) ==
    IF Calm(kind, value) THEN (IF inSet THEN "cleared" ELSE "calm")
    ELSE IF kind = "emp" /\ value = NoneRate THEN old
    ELSE IF inSet THEN "held" ELSE "alert"

\* The alerted set after the whole loop ran without interruption: the ids
\* of a scan are distinct, so each id is decided by its own membership.
LoopSetKeepsNothing(kind, ids) ==
    Alerted(kind) \ {x \in ids : Branch(kind, Scanned(kind, x), x \in Alerted(kind)) = "remove"}

LoopSet(kind, ids) ==
    (Alerted(kind) \cup
        {x \in ids : Branch(kind, Scanned(kind, x), x \in Alerted(kind)) = "alert"})
    \ {x \in ids : Branch(kind, Scanned(kind, x), x \in Alerted(kind)) = "remove"}

IsAlert(kind, x) == Branch(kind, Scanned(kind, x), x \in Alerted(kind)) = "alert"

LoopAlerts(kind) ==
    LET F(x) == IsAlert(kind, x) IN SelectSeq(ScanOrder(kind), F)

SetAlerted(kind, S) ==
    IF kind = "dept"
      THEN /\ _alerted_departments' = S
           /\ UNCHANGED _alerted_employees
      ELSE /\ _alerted_employees' = S
           /\ UNCHANGED _alerted_departments

\* check_department_risks / check_employee_stress scheduled on the running
\* event loop (asyncio.create_task): the scan and the loop contain no await,
\* so they run as one step up to the first `await broadcast`.  A scan that
\* raises leaves alerts empty.
CheckOnLoop(c, kind, scanOk) ==
    /\ chk[c].pc = "idle"
    /\ IF scanOk
         THEN LET ids == Range(ScanOrder(kind))
                  alerts == LoopAlerts(kind)
              IN  /\ SetAlerted(kind, LoopSet(kind, ids))
                  /\ chk' = [chk EXCEPT ![c] =
                               IF alerts = <<>> THEN Idle
                               ELSE [Idle EXCEPT !.pc = "broadcast", !.kind = kind,
                                                 !.alerts = alerts]]
                  /\ lastEvt' = [x \in Depts \cup Emps |->
                                   IF x \notin ids THEN lastEvt[x]
                                   ELSE Evt(kind, Scanned(kind, x), x \in Alerted(kind),
                                            lastEvt[x])]
         ELSE UNCHANGED <<_alerted_departments, _alerted_employees, chk, lastEvt>>
    /\ UNCHANGED <<departments, employees>>

\* `for alert in alerts: await connection_manager.broadcast(alert)`: one
\* broadcast; the check returns after the last one.
BroadcastAlert(c) ==
    /\ chk[c].pc = "broadcast"
    /\ chk' = [chk EXCEPT ![c] =
                 IF Len(chk[c].alerts) = 1 THEN Idle
                 ELSE [chk[c] EXCEPT !.alerts = Tail(@)]]
    /\ UNCHANGED <<departments, employees, _alerted_departments, _alerted_employees,
                   lastEvt>>

\* reset_alert_state().
reset_alert_state ==
    /\ _alerted_departments' = {}
    /\ _alerted_employees' = {}
    /\ lastEvt' = [x \in Depts \cup Emps |-> "none"]
    /\ UNCHANGED <<departments, employees, chk>>

\* The sync (or any other writer) stores a new overall_risk / stress_rate.
SetDeptRisk(d, r) ==
    /\ departments[d] # r
    /\ departments' = [departments EXCEPT ![d] = r]
    /\ UNCHANGED <<employees, _alerted_departments, _alerted_employees, chk, lastEvt>>

SetEmpStress(e, v) ==
    /\ employees[e] # v
    /\ employees' = [employees EXCEPT ![e] = v]
    /\ UNCHANGED <<departments, _alerted_departments, _alerted_employees, chk, lastEvt>>

CheckOnLoopStep ==
    \E c \in Checkers, kind \in {"dept", "emp"}, scanOk \in BOOLEAN :
        CheckOnLoop(c, kind, scanOk) /\ UNCHANGED otherThanMon
BroadcastAlertStep == \E c \in Checkers : BroadcastAlert(c) /\ UNCHANGED otherThanMon
ResetStep == reset_alert_state /\ UNCHANGED otherThanMon
SetDeptRiskStep == \E d \in Depts, r \in Risks : SetDeptRisk(d, r) /\ UNCHANGED otherThanMon
SetEmpStressStep == \E e \in Emps, v \in Rates : SetEmpStress(e, v) /\ UNCHANGED otherThanMon

NextMonitor ==
    \/ CheckOnLoopStep
    \/ BroadcastAlertStep
    \/ ResetStep
    \/ SetDeptRiskStep
    \/ SetEmpStressStep


(***************************************************************************)
(* The same checks run from worker threads: _trigger_*_check finds no      *)
(* running loop in the thread, makes one and runs the check to completion  *)
(* there.  Two threads interleave between any two statements.              *)
(***************************************************************************)
\* End of one loop iteration.
Advance(st) ==
    IF st.idx = Len(ScanOrder(st.kind))
      THEN (IF st.alerts = <<>> THEN Idle ELSE [st EXCEPT !.pc = "broadcast"])
      ELSE [st EXCEPT !.pc = "test", !.idx = @ + 1]

\* table.scan(): the items and their values as read now.
ThreadScan(c, kind, scanOk) ==
    /\ chk[c].pc = "idle"
    /\ IF scanOk
         THEN chk' = [chk EXCEPT ![c] =
                        [Idle EXCEPT !.pc = "test", !.kind = kind, !.idx = 1,
                           !.snap = [i \in DOMAIN ScanOrder(kind) |->
                                        Scanned(kind, ScanOrder(kind)[i])]]]
         ELSE UNCHANGED chk
    /\ UNCHANGED <<departments, employees, _alerted_departments, _alerted_employees, lastEvt>>

\* The conditions of the if / elif: the membership test.
ThreadTest(c) ==
    /\ chk[c].pc = "test"
    /\ LET st == chk[c]
           x == ScanOrder(st.kind)[st.idx]
           b == Branch(st.kind, st.snap[st.idx], x \in Alerted(st.kind))
       IN  /\ chk' = [chk EXCEPT ![c] =
                        IF b = "skip" THEN Advance(st)
                        ELSE [st EXCEPT !.pc = "apply", !.decision = b]]
           /\ lastEvt' = [lastEvt EXCEPT ![x] =
                            IF b = "skip"
                              THEN Evt(st.kind, st.snap[st.idx], x \in Alerted(st.kind), @)
                              ELSE @]
    /\ UNCHANGED <<departments, employees, _alerted_departments, _alerted_employees>>

\* The body of the branch taken: alerts.append and set.add, or set.remove,
\* which raises KeyError when the id is no longer in the set; the except
\* around the loop then ends the loop.
ThreadApply(c) ==
    /\ chk[c].pc = "apply"
    /\ LET st == chk[c]
           x == ScanOrder(st.kind)[st.idx]
       IN  IF st.decision = "alert"
             THEN /\ SetAlerted(st.kind, Alerted(st.kind) \cup {x})
                  /\ chk' = [chk EXCEPT ![c] = Advance([st EXCEPT !.alerts = Append(@, x)])]
                  /\ lastEvt' = [lastEvt EXCEPT ![x] = "alert"]
             ELSE IF x \in Alerted(st.kind)
               THEN /\ SetAlerted(st.kind, Alerted(st.kind) \ {x})
                    /\ chk' = [chk EXCEPT ![c] = Advance(st)]
                    /\ lastEvt' = [lastEvt EXCEPT ![x] = "cleared"]
               ELSE /\ chk' = [chk EXCEPT ![c] =
                                 Advance([st EXCEPT !.idx = Len(ScanOrder(st.kind))])]
                    /\ UNCHANGED <<_alerted_departments, _alerted_employees, lastEvt>>
    /\ UNCHANGED <<departments, employees>>

ThreadScanStep ==
    \E c \in Checkers, kind \in {"dept", "emp"}, scanOk \in BOOLEAN :
        ThreadScan(c, kind, scanOk) /\ UNCHANGED otherThanMon
ThreadTestStep == \E c \in Checkers : ThreadTest(c) /\ UNCHANGED otherThanMon
ThreadApplyStep == \E c \in Checkers : ThreadApply(c) /\ UNCHANGED otherThanMon

NextThreads ==
    \/ ThreadScanStep
    \/ ThreadTestStep
    \/ ThreadApplyStep
    \/ BroadcastAlertStep
    \/ ResetStep
    \/ SetDeptRiskStep
    \/ SetEmpStressStep

(***************************************************************************)
(* C4: over any sequence of check runs without a reset, no second alert is *)
(* emitted for the same department (employee) id unless a check in between *)
(* observed the department as not critical (the employee with              *)
(* stress_rate <= 40).                                                     *)
(***************************************************************************)
\* Checker c emits an alert for x in this step.
Emits(c, x) == x \in Range(chk'[c].alerts) \ Range(chk[c].alerts)

C4_NoRepeatedAlert ==
    [][\A c \in Checkers, x \in Depts \cup Emps :
          Emits(c, x) => lastEvt[x] \notin {"alert", "held"}]_vars

\* A later check found an alerted department still critical and an alerted
\* employee still stressed, and emitted nothing for them.
C4_Witness ==
    /\ lastEvt["d1"] = "held" /\ "d1" \in _alerted_departments
    /\ lastEvt["e1"] = "held" /\ "e1" \in _alerted_employees

(***************************************************************************)
(* C5 as stated: an id leaves the alerted sets only through                *)
(* reset_alert_state (or a restart); no alert check removes an id.         *)
(***************************************************************************)
C5_OnlyResetRemoves ==
    [][\/ /\ _alerted_departments \subseteq _alerted_departments'
          /\ _alerted_employees \subseteq _alerted_employees'
       \/ reset_alert_state]_vars

(***************************************************************************)
(* C5 amended: an id leaves the alerted sets only through                  *)
(* reset_alert_state (or a restart) or through a check that observes the   *)
(* department as no longer critical (the employee with stress_rate <= 40); *)
(* a check never removes the id of a department it observes as critical    *)
(* (an employee it observes with stress_rate > 40 or without a rate).      *)
(***************************************************************************)
C5_RemovedOnlyWhenCalm ==
    [][\/ /\ \A d \in _alerted_departments \ _alerted_departments' :
                Calm("dept", departments[d])
          /\ \A e \in _alerted_employees \ _alerted_employees' :
                Calm("emp", employees[e])
       \/ reset_alert_state]_vars

\* A check has removed a department and an employee from the sets.
C5_Witness ==
    /\ lastEvt["d1"] = "cleared" /\ "d1" \notin _alerted_departments
    /\ lastEvt["e1"] = "cleared" /\ "e1" \notin _alerted_employees

(***************************************************************************)
(* C6: concurrent alert checks do not race on set membership: the          *)
(* membership test and the insertion of one check are never interleaved    *)
(* with those of another, so two overlapping checks never both pass the    *)
(* test for the same id and both emit its alert.                           *)
(***************************************************************************)
C6_NoRaceOnMembership ==
    \A c1, c2 \in Checkers :
        (/\ c1 # c2
         /\ chk[c1].pc = "apply" /\ chk[c2].pc = "apply"
         /\ chk[c1].kind = chk[c2].kind /\ chk[c1].idx = chk[c2].idx)
        => ~(chk[c1].decision = "alert" /\ chk[c2].decision = "alert")


(***************************************************************************)
(* websocket_alerts.py: ConnectionManager and the /ws/alerts endpoint.     *)
(* Everything runs on one event loop: a coroutine is interleaved with the  *)
(* others only where it awaits.  Two alert checks can each be awaiting a   *)
(* broadcast, so two broadcasts can overlap.                               *)
(***************************************************************************)
Socks == {"w1", "w2"}
Bcasts == {"b1", "b2"}

\* list.remove(x) for every x of S (an element occurs at most once).
RemoveAll(conns, S) == SelectSeq(conns, LAMBDA c : c \notin S)

\* start and ok record, for the broadcast, the list at its start and the
\* connections whose send returned.
NoBroadcast == [pc |-> "idle", idx |-> 0, disconnected |-> <<>>,
                start |-> {}, ok |-> {}]

WSInit ==
    /\ active_connections = <<>>
    /\ sock = [s \in Socks |-> "new"]
    /\ up = [s \in Socks |-> TRUE]
    /\ bc = [b \in Bcasts |-> NoBroadcast]
    /\ droppedBy = [s \in Socks |-> "none"]

\* The cleanup loop of broadcast with its disconnect left out.
CleanupKeepsFailed(conns, disconnected) == conns

\* for conn in disconnected: self.disconnect(conn)
Cleanup(conns, disconnected) == RemoveAll(conns, Range(disconnected))

\* One turn of "for connection in self.active_connections": the list
\* iterator hands out the element at its index and moves on; send_text
\* raises when the client is gone.
Iter(st) ==
    LET connection == active_connections[st.idx]
    IN  IF up[connection]
          THEN [st EXCEPT !.idx = @ + 1, !.ok = @ \cup {connection}]
          ELSE [st EXCEPT !.idx = @ + 1,
                          !.disconnected = Append(@, connection)]

\* broadcast up to its first await; it returns at once on an empty list.
BroadcastStart(b) ==
    /\ bc[b].pc = "idle"
    /\ bc' = [bc EXCEPT ![b] =
                IF active_connections = <<>> THEN NoBroadcast
                ELSE Iter([NoBroadcast EXCEPT !.pc = "loop", !.idx = 1,
                                          !.start = Range(active_connections)])]
    /\ UNCHANGED <<active_connections, sock, up, droppedBy>>

\* broadcast from one await to the next, or to its return after the cleanup.
BroadcastResume(b) ==
    /\ bc[b].pc = "loop"
    /\ IF bc[b].idx <= Len(active_connections)
         THEN /\ bc' = [bc EXCEPT ![b] = Iter(@)]
              /\ UNCHANGED <<active_connections, droppedBy>>
         ELSE /\ active_connections' = Cleanup(active_connections, bc[b].disconnected)
              /\ droppedBy' = [s \in Socks |->
                                 IF s \in Range(active_connections)
                                        \ Range(active_connections')
                                   THEN b ELSE droppedBy[s]]
              /\ bc' = [bc EXCEPT ![b].pc = "idle", ![b].idx = 0]
    /\ UNCHANGED <<sock, up>>

\* websocket_alerts_endpoint up to the await in manager.connect
EndpointAccept(s) ==
    /\ sock[s] = "new"
    /\ sock' = [sock EXCEPT ![s] = "accepting"]
    /\ UNCHANGED <<active_connections, up, bc, droppedBy>>

\* manager.connect after accept, up to the await of the welcome message
EndpointConnect(s) ==
    /\ sock[s] = "accepting"
    /\ active_connections' = Append(active_connections, s)
    /\ sock' = [sock EXCEPT ![s] = "welcome"]
    /\ UNCHANGED <<up, bc, droppedBy>>

\* send_personal returned (it swallows a send failure); the receive loop
\* starts.  A "ping" answered with a "pong" changes nothing of the manager.
EndpointWelcomed(s) ==
    /\ sock[s] = "welcome"
    /\ sock' = [sock EXCEPT ![s] = "open"]
    /\ UNCHANGED <<active_connections, up, bc, droppedBy>>

\* The client goes away.
ClientDrop(s) ==
    /\ sock[s] \in {"accepting", "welcome", "open"}
    /\ up[s]
    /\ up' = [up EXCEPT ![s] = FALSE]
    /\ UNCHANGED <<active_connections, sock, bc, droppedBy>>

\* receive_text raises WebSocketDisconnect: manager.disconnect(websocket)
EndpointDisconnect(s) ==
    /\ sock[s] = "open"
    /\ ~up[s]
    /\ active_connections' = RemoveAll(active_connections, {s})
    /\ droppedBy' = [droppedBy EXCEPT ![s] =
                        IF s \in Range(active_connections) THEN "handler" ELSE @]
    /\ sock' = [sock EXCEPT ![s] = "closed"]
    /\ UNCHANGED <<up, bc>>

BroadcastStartStep == \E b \in Bcasts : BroadcastStart(b) /\ UNCHANGED otherThanWS
BroadcastResumeStep == \E b \in Bcasts : BroadcastResume(b) /\ UNCHANGED otherThanWS
EndpointAcceptStep == \E s \in Socks : EndpointAccept(s) /\ UNCHANGED otherThanWS
EndpointConnectStep == \E s \in Socks : EndpointConnect(s) /\ UNCHANGED otherThanWS
EndpointWelcomedStep == \E s \in Socks : EndpointWelcomed(s) /\ UNCHANGED otherThanWS
ClientDropStep == \E s \in Socks : ClientDrop(s) /\ UNCHANGED otherThanWS
EndpointDisconnectStep == \E s \in Socks : EndpointDisconnect(s) /\ UNCHANGED otherThanWS

NextWS ==
    \/ BroadcastStartStep
    \/ BroadcastResumeStep
    \/ EndpointAcceptStep
    \/ EndpointConnectStep
    \/ EndpointWelcomedStep
    \/ ClientDropStep
    \/ EndpointDisconnectStep

\* The step in which broadcast b returns after its loop.
BroadcastReturns(b) == bc[b].pc = "loop" /\ bc'[b].pc = "idle"

(***************************************************************************)
(* C7 as stated: broadcast does not raise on a send failure; after it      *)
(* returns every connection whose send raised is out of                    *)
(* active_connections and every connection whose send succeeded is still   *)
(* in it.                                                                  *)
(***************************************************************************)
C7_SucceededStillIn ==
    [][\A b \in Bcasts : BroadcastReturns(b) =>
          /\ Range(bc'[b].disconnected) \cap Range(active_connections') = {}
          /\ bc'[b].ok \subseteq Range(active_connections')]_vars

(***************************************************************************)
(* C7 amended: broadcast does not raise on a send failure; after it        *)
(* returns every connection whose send raised is out of                    *)
(* active_connections, and every connection whose send succeeded is still  *)
(* in it unless manager.disconnect was called for it from outside this     *)
(* broadcast (by its endpoint handler, or by another broadcast whose send  *)
(* to it raised) while this broadcast was awaiting a send.                 *)
(***************************************************************************)
C7_FailedDropped ==
    [][\A b \in Bcasts : BroadcastReturns(b) =>
          /\ Range(bc'[b].disconnected) \cap Range(active_connections') = {}
          /\ \A s \in bc'[b].ok :
                \/ s \in Range(active_connections')
                \/ droppedBy'[s] \in ({"handler"} \cup Bcasts) \ {b}]_vars

\* A broadcast returned after one send raised and another succeeded; it
\* removed the first connection from the list and the second is still in it.
C7_Witness ==
    \E b \in Bcasts, s, t \in Socks :
        /\ bc[b].pc = "idle"
        /\ s \in Range(bc[b].disconnected) /\ droppedBy[s] = b
        /\ t \in bc[b].ok /\ t \in Range(active_connections)

(***************************************************************************)
(* C8: every session that is in active_connections when a broadcast starts *)
(* and is not itself disconnected before the broadcast ends is sent the    *)
(* message, also when other sessions connect or disconnect meanwhile.      *)
(***************************************************************************)
C8_FanOutToAll ==
    [][\A b \in Bcasts : BroadcastReturns(b) =>
          \A s \in bc[b].start :
              (up[s] /\ droppedBy[s] = "none")
                  => s \in bc[b].ok \cup Range(bc[b].disconnected)]_vars

(***************************************************************************)
(* Narrative generation.  The generator's response is a short text over    *)
(* five kinds of token: "f" a markdown fence, "{" and "}", "k" a           *)
(* well-formed "key": value pair, "x" a run of letters (prose).            *)
(***************************************************************************)
Tokens == {"f", "{", "}", "k", "x"}

RECURSIVE TextsUpTo(_)
TextsUpTo(n) ==
    IF n = 0 THEN {<<>>}
    ELSE LET shorter == TextsUpTo(n - 1)
         IN  shorter \cup {Append(t, c) : t \in {u \in shorter : Len(u) = n - 1},
                                          c \in Tokens}

Texts == TextsUpTo(MaxText)

\* json.loads: the documents of this alphabet are {} and {"key": value}.
json_loads(t) == t \in {<<"{", "}">>, <<"{", "k", "}">>}

\* re.sub of a fence and [a-zA-Z]* at the start: the fence goes,
\* together with the letters that directly follow it.
StripLeadingFence(t) ==
    IF t # <<>> /\ Head(t) = "f"
      THEN (IF Len(t) >= 2 /\ t[2] = "x" THEN SubSeq(t, 3, Len(t)) ELSE Tail(t))
      ELSE t

\* re.sub of a fence at the end
StripTrailingFence(t) ==
    IF t # <<>> /\ t[Len(t)] = "f" THEN SubSeq(t, 1, Len(t) - 1) ELSE t

StripFences(t) ==
    IF "f" \in Range(t) THEN StripTrailingFence(StripLeadingFence(t)) ELSE t

\* raw_text[start_idx : end_idx + 1] when both braces are found
ExtractBraces(t) ==
    LET opens == {i \in DOMAIN t : t[i] = "{"}
        closes == {i \in DOMAIN t : t[i] = "}"}
    IN  IF opens # {} /\ closes # {}
          THEN SubSeq(t, CHOOSE i \in opens : \A j \in opens : i <= j,
                         CHOOSE i \in closes : \A j \in closes : i >= j)
          ELSE t

\* clean_llm_json of insight.py and of recommendation_agent.py: TRUE when
\* it returns a dictionary, FALSE when it raises.  Their remaining steps
\* rewrite control characters, smart quotes and trailing commas, which the
\* alphabet does not have.
clean_llm_json(t) == json_loads(ExtractBraces(StripFences(t)))

\* insight.py: the except of generate_ai_summary returns the placeholder.
generate_ai_summary(t) == IF clean_llm_json(t) THEN "parsed" ELSE "placeholder"

\* departments.py: json.loads of the raw response; a response other than
\* 200 gives its own fixed payload.
generate_llm_insight(t, status200) ==
    IF ~status200 THEN "error_payload"
    ELSE IF json_loads(t) THEN "parsed" ELSE "placeholder"

\* recommendation_agent.py returns success False with an empty list;
\* get_micro_actions turns that into HTTPException(500).
get_micro_actions(t) == IF clean_llm_json(t) THEN "parsed" ELSE "http500"

\* employees.py: json.loads of the raw response outside any try; the
\* endpoint's except raises HTTPException(500).
get_employee_recommendations(t) == IF json_loads(t) THEN "parsed" ELSE "http500"

NarrInit == narr = [site |-> "none", text |-> <<>>, outcome |-> "none"]

Answered(site, t, outcome) ==
    narr' = [site |-> site, text |-> t, outcome |-> outcome]

GetInsightsStep ==
    \E t \in Texts :
        Answered("insights", t, generate_ai_summary(t)) /\ UNCHANGED otherThanNarr
GetDepartmentsStep ==
    \E t \in Texts, status200 \in BOOLEAN :
        Answered("departments", t, generate_llm_insight(t, status200))
            /\ UNCHANGED otherThanNarr
GetMicroActionsStep ==
    \E t \in Texts :
        Answered("micro_actions", t, get_micro_actions(t)) /\ UNCHANGED otherThanNarr
GetEmployeeRecommendationsStep ==
    \E t \in Texts :
        Answered("employee", t, get_employee_recommendations(t))
            /\ UNCHANGED otherThanNarr

NextNarr ==
    \/ GetInsightsStep
    \/ GetDepartmentsStep
    \/ GetMicroActionsStep
    \/ GetEmployeeRecommendationsStep

\* The text is not JSON, neither as received nor after the cleaning.
Malformed(t) == ~json_loads(t) /\ ~clean_llm_json(t)

(***************************************************************************)
(* C3: at every narrative call site a generator response that cannot be    *)
(* parsed as JSON gives the fixed placeholder payload, never an exception  *)
(* or an HTTP error response.                                              *)
(***************************************************************************)
C3_MalformedGivesPlaceholder ==
    (narr.site # "none" /\ Malformed(narr.text))
        => narr.outcome \in {"placeholder", "error_payload"}


(***************************************************************************)
(* The result caches.  cached_data keeps the frames fetched by             *)
(* risk_engine.py in _data_cache for CACHE_TTL seconds; @cache keeps the   *)
(* responses of the endpoints for an hour.  An entry records the version   *)
(* of the store it was computed from, its timestamp and the number of      *)
(* cache-clear calls made before it was stored.                            *)
(***************************************************************************)
CACHE_TTL == 300
CacheExpire == 3600
TickSeconds == CACHE_TTL \div 2

DataKeys == {"employees"}
Endpoints == {"metrics", "summary"}

NoEntry == [ver |-> -1, ts |-> -1, epoch |-> -1]
NoResp == [endpoint |-> "none", outcome |-> "none", ver |-> -1, storeAt |-> -1,
           served |-> -1, clearsAt |-> -1, first |-> FALSE]

CacheInit ==
    /\ store = 0
    /\ now = 0
    /\ _data_cache = [k \in DataKeys |-> NoEntry]
    /\ fastapi_cache = [e \in Endpoints |-> NoEntry]
    /\ clears = 0
    /\ answered = {}
    /\ resp = NoResp

\* if cache_key in _data_cache ... time.time() - timestamp < CACHE_TTL
DataHit(k) == _data_cache[k] # NoEntry /\ now - _data_cache[k].ts < CACHE_TTL

\* The @cache decorator finds a response that has not expired.
ResponseHit(e) == fastapi_cache[e] # NoEntry /\ now - fastapi_cache[e].ts < CacheExpire

Fresh == [ver |-> store, ts |-> now, epoch |-> clears]

\* The response of endpoint e, computed from version ver of the data, using
\* a cache entry stored after `served` cache-clear calls.
Answer(e, outcome, ver, served) ==
    /\ resp' = [endpoint |-> e, outcome |-> outcome, ver |-> ver, storeAt |-> store,
                served |-> served, clearsAt |-> clears, first |-> e \notin answered]
    /\ answered' = answered \cup {e}

\* GET /metrics/summary: the cached response, or one computed from
\* fetch_survey_data(), which reads the store.
get_metrics_summary ==
    /\ IF ResponseHit("summary")
         THEN /\ Answer("summary", "ok", fastapi_cache["summary"].ver,
                        fastapi_cache["summary"].epoch)
              /\ UNCHANGED fastapi_cache
         ELSE /\ Answer("summary", "ok", store, clears)
              /\ fastapi_cache' = [fastapi_cache EXCEPT !["summary"] = Fresh]
    /\ UNCHANGED <<store, now, _data_cache, clears>>

\* GET /metrics/: the cached response, or analyze_survey_data_from_db():
\* fetch_employees() goes through cached_data, then the call of
\* fetch_workload, a name that is not defined, raises NameError: the
\* endpoint answers 500 and @cache stores nothing.
get_metrics ==
    /\ IF ResponseHit("metrics")
         THEN /\ Answer("metrics", "ok", fastapi_cache["metrics"].ver,
                        fastapi_cache["metrics"].epoch)
              /\ UNCHANGED _data_cache
         ELSE IF DataHit("employees")
           THEN /\ Answer("metrics", "error500", _data_cache["employees"].ver,
                          _data_cache["employees"].epoch)
                /\ UNCHANGED _data_cache
           ELSE /\ Answer("metrics", "error500", store, clears)
                /\ _data_cache' = [_data_cache EXCEPT !["employees"] = Fresh]
    /\ UNCHANGED <<store, now, fastapi_cache, clears>>

\* DELETE /metrics/cache: await FastAPICache.clear()
clear_cache ==
    /\ clears < MaxClears
    /\ fastapi_cache' = [e \in Endpoints |-> NoEntry]
    /\ clears' = clears + 1
    /\ answered' = {}
    /\ UNCHANGED <<store, now, _data_cache, resp>>

\* Some request writes to the store.
StoreWrite ==
    /\ store < MaxWrites
    /\ store' = store + 1
    /\ UNCHANGED <<now, _data_cache, fastapi_cache, clears, answered, resp>>

Tick ==
    /\ now < MaxTicks * TickSeconds
    /\ now' = now + TickSeconds
    /\ UNCHANGED <<store, _data_cache, fastapi_cache, clears, answered, resp>>

GetMetricsSummaryStep == get_metrics_summary /\ UNCHANGED otherThanCache
GetMetricsStep == get_metrics /\ UNCHANGED otherThanCache
ClearCacheStep == clear_cache /\ UNCHANGED otherThanCache
StoreWriteStep == StoreWrite /\ UNCHANGED otherThanCache
TickStep == Tick /\ UNCHANGED otherThanCache

NextCache ==
    \/ GetMetricsSummaryStep
    \/ GetMetricsStep
    \/ ClearCacheStep
    \/ StoreWriteStep
    \/ TickStep

(***************************************************************************)
(* C9: after an explicit cache-clear call no entry cached before the clear *)
(* is served, and the next aggregation request (GET /metrics/ for one) is  *)
(* computed from the current contents of the store.                        *)
(***************************************************************************)
C9_ClearEvictsAll ==
    (resp.endpoint # "none" /\ resp.clearsAt > 0) =>
        /\ resp.served = resp.clearsAt
        /\ resp.first => (resp.outcome = "ok" /\ resp.ver = resp.storeAt)


(***************************************************************************)
(* The snapshot: the latest submission of every employee.  A row has an    *)
(* employee id, a submission date (NaT when it is missing or does not      *)
(* parse) and a department; rows are named by their position in the scan.  *)
(* snap records the snapshot taken of the rows as they are now.            *)
(***************************************************************************)
NaT == 0
SnapEmps == {"e1", "e2"}
SnapDepts == {"hr", "it"}
Dates == 1..MaxDate
SurveyRow == [employee_id : SnapEmps, submission_date : Dates \cup {NaT},
              department : SnapDepts]

NoSnap == [site |-> "none", outcome |-> "none", filtered |-> {}, snapshot |-> {}]

SnapInit ==
    /\ survey_rows = <<>>
    /\ snap = NoSnap

RECURSIVE Perms(_)
Perms(S) ==
    IF S = {} THEN {<<>>}
    ELSE UNION {{<<x>> \o q : q \in Perms(S \ {x})} : x \in S}

\* sort_values(by=date_col, ascending=False): newest first, NaT last; the
\* sort is not stable, so rows with equal dates come in any order.
sort_values(S) ==
    {q \in Perms(S) :
        \A a, b \in DOMAIN q :
            a < b => survey_rows[q[a]].submission_date >= survey_rows[q[b]].submission_date}

\* keep='last' in place of keep='first'
drop_duplicates_keep_last(q) ==
    {q[a] : a \in {c \in DOMAIN q :
                     \A b \in DOMAIN q :
                        b > c => survey_rows[q[b]].employee_id # survey_rows[q[c]].employee_id}}

\* drop_duplicates(subset=['employee_id'], keep='first')
drop_duplicates(q) ==
    {q[a] : a \in {c \in DOMAIN q :
                     \A b \in DOMAIN q :
                        b < c => survey_rows[q[b]].employee_id # survey_rows[q[c]].employee_id}}

\* The rows in scan order.
ScanSeq(S) == CHOOSE q \in Perms(S) : \A a, b \in DOMAIN q : a < b => q[a] < q[b]

Took(site, filtered, snapshot) ==
    snap' = [site |-> site, outcome |-> "ok", filtered |-> filtered,
             snapshot |-> snapshot]

\* The site read a column the frame does not have: KeyError.
Raised(site) == snap' = [NoSnap EXCEPT !.site = site, !.outcome = "raised"]

\* The deduplication run on the whole frame and the filter applied to its
\* result.
latest_then_filter(all, filtered) ==
    {drop_duplicates(q) \cap filtered : q \in sort_values(all)}

\* The snapshots of a filtered frame: the filters have been applied, then
\* the filtered rows are sorted and deduplicated.
filter_then_latest(all, filtered) ==
    {drop_duplicates(q) : q \in sort_values(filtered)}

\* GET /metrics/summary: rows without a valid date are dropped, then the
\* cutoff and the department filter apply (department "" is no filter);
\* an empty result returns early with zeros.  The snapshot reads the
\* column 'employee_id'.
MetricsSummarySnapshot(lower, cutoff, department) ==
    LET filtered == {i \in DOMAIN survey_rows :
                        /\ survey_rows[i].submission_date # NaT
                        /\ survey_rows[i].submission_date >= cutoff
                        /\ department # "" => survey_rows[i].department = department}
    IN  /\ snap = NoSnap
        /\ IF filtered = {} THEN Took("metrics_summary", {}, {})
           ELSE IF ~lower THEN Raised("metrics_summary")
           ELSE \E latest \in filter_then_latest(DOMAIN survey_rows, filtered) :
                   Took("metrics_summary", filtered, latest)
        /\ UNCHANGED survey_rows

\* get_risk_summary_by_department: it reads 'Department' and
\* 'Submission_Date'; the year filter drops the rows of other years and
\* those without a date (year 0 is no filter).
RiskSummarySnapshot(lower, year, department) ==
    LET filtered == {i \in DOMAIN survey_rows :
                        /\ year # 0 => survey_rows[i].submission_date = year
                        /\ survey_rows[i].department = department}
    IN  /\ snap = NoSnap
        /\ IF survey_rows = <<>> THEN Took("risk_summary", {}, {})
           ELSE IF lower THEN Raised("risk_summary")
           ELSE IF filtered = {} THEN Took("risk_summary", {}, {})
           ELSE \E latest \in filter_then_latest(DOMAIN survey_rows, filtered) :
                   Took("risk_summary", filtered, latest)
        /\ UNCHANGED survey_rows

\* perform_full_sync: no filter.  It sorts when the frame has the column
\* 'submission_date'; a frame without it has no dates and is taken in file
\* order.  It reads the column 'employee_id'.
FullSyncSnapshot(lower, dateColumn) ==
    LET all == DOMAIN survey_rows
    IN  /\ snap = NoSnap
        /\ survey_rows # <<>>
        /\ ~dateColumn => \A i \in all : survey_rows[i].submission_date = NaT
        /\ IF ~lower THEN Raised("full_sync")
           ELSE IF dateColumn
             THEN \E q \in sort_values(all) : Took("full_sync", all, drop_duplicates(q))
             ELSE Took("full_sync", all, drop_duplicates(ScanSeq(all)))
        /\ UNCHANGED survey_rows

\* A survey response is stored; the snapshot taken before it is history.
PutSurveyRow(r) ==
    /\ Len(survey_rows) < MaxFrame
    /\ survey_rows' = Append(survey_rows, r)
    /\ snap' = NoSnap

MetricsSummarySnapshotStep ==
    \E lower \in BOOLEAN, cutoff \in Dates, department \in SnapDepts \cup {""} :
        MetricsSummarySnapshot(lower, cutoff, department) /\ UNCHANGED otherThanSnap
RiskSummarySnapshotStep ==
    \E lower \in BOOLEAN, year \in Dates \cup {0}, department \in SnapDepts :
        RiskSummarySnapshot(lower, year, department) /\ UNCHANGED otherThanSnap
FullSyncSnapshotStep ==
    \E lower \in BOOLEAN, dateColumn \in BOOLEAN :
        FullSyncSnapshot(lower, dateColumn) /\ UNCHANGED otherThanSnap
PutSurveyRowStep == \E r \in SurveyRow : PutSurveyRow(r) /\ UNCHANGED otherThanSnap

NextSnap ==
    \/ MetricsSummarySnapshotStep
    \/ RiskSummarySnapshotStep
    \/ FullSyncSnapshotStep
    \/ PutSurveyRowStep

NewerUnmatched(k, j) ==
    /\ k \in DOMAIN survey_rows \ snap.filtered
    /\ survey_rows[k].employee_id = survey_rows[j].employee_id
    /\ survey_rows[k].submission_date > survey_rows[j].submission_date

\* Row j is the latest of the submissions of its employee that passed.
LatestMatching(j) ==
    /\ j \in snap.filtered
    /\ \A m \in snap.filtered :
          survey_rows[m].employee_id = survey_rows[j].employee_id
              => survey_rows[m].submission_date <= survey_rows[j].submission_date

C11_FilterBeforeDedup ==
    (snap.outcome = "ok" /\ snap.site \in {"metrics_summary", "risk_summary"}) =>
        \A j \in DOMAIN survey_rows :
            (LatestMatching(j) /\ \E k \in DOMAIN survey_rows : NewerUnmatched(k, j))
                => \E i \in snap.snapshot :
                      /\ survey_rows[i].employee_id = survey_rows[j].employee_id
                      /\ survey_rows[i].submission_date = survey_rows[j].submission_date
                      /\ i \in snap.filtered

\* A risk summary for one year: the employee's newest submission is of a
\* later year, and the snapshot holds the employee's submission of the
\* year asked for.
C11_Witness ==
    /\ snap.site = "risk_summary" /\ snap.outcome = "ok"
    /\ \E i \in snap.snapshot, k \in DOMAIN survey_rows :
          /\ NewerUnmatched(k, i)
          /\ survey_rows[k].department = survey_rows[i].department


(***************************************************************************)
(* The sync of the Employees table.  A row of the file has an employee id, *)
(* a submission date and the set of metric fields that are not null in it. *)
(* A stored value is named by where it comes from: the sync that wrote it  *)
(* and the submission date of the row it was computed from.                *)
(***************************************************************************)
SyncEmps == {"e1"}
SyncFields == {"engagement_rate", "stress_rate"}
SyncRow == [employee_id : SyncEmps, submission_date : Dates, has : SUBSET SyncFields]

RECURSIVE FilesUpTo(_)
FilesUpTo(n) ==
    IF n = 0 THEN {<<>>}
    ELSE LET shorter == FilesUpTo(n - 1)
         IN  shorter \cup {Append(f, r) : f \in {g \in shorter : Len(g) = n - 1},
                                          r \in SyncRow}

Files == FilesUpTo(MaxFile) \ {<<>>}

NoVal == [sync |-> 0, date |-> 0]
NoSync == [site |-> "none", file |-> <<>>]

SyncInit ==
    /\ emp_metrics = [e \in SyncEmps |-> [f \in SyncFields |-> NoVal]]
    /\ syncs = 0
    /\ last_sync = NoSync

\* update_item with "SET" of the fields whose value is not null: the
\* other attributes of the item stay as they are.
update_item(item, row, fields, n) ==
    [f \in SyncFields |->
        IF f \in fields THEN [sync |-> n, date |-> row.submission_date] ELSE item[f]]

\* The fields update_employees_from_survey finds a value for: stress_rate
\* is read from the column 'burnout_rate', which the row-metric
\* calculation does not produce; it is there only when the file has it.
UploadFields(row, burnoutColumn) ==
    (row.has \ {"stress_rate"}) \cup (IF burnoutColumn THEN {"stress_rate"} ELSE {})

\* for _, row in df.iterrows(): one update_item per row, in file order.
RECURSIVE UploadLoop(_, _, _, _)
UploadLoop(table, file, burnoutColumn, n) ==
    IF file = <<>> THEN table
    ELSE LET row == Head(file)
         IN  UploadLoop([table EXCEPT ![row.employee_id] =
                            update_item(@, row, UploadFields(row, burnoutColumn), n)],
                        Tail(file), burnoutColumn, n)

\* update_employees_from_survey(df) of the upload job
UploadSync(file, burnoutColumn) ==
    /\ syncs < MaxSyncs
    /\ syncs' = syncs + 1
    /\ emp_metrics' = UploadLoop(emp_metrics, file, burnoutColumn, syncs + 1)
    /\ last_sync' = [site |-> "upload", file |-> file]

\* The positions of the rows perform_full_sync can keep for employee e:
\* first after the sort by date, newest first, equal dates in any order.
LatestRows(file, e) ==
    {i \in DOMAIN file :
        /\ file[i].employee_id = e
        /\ \A j \in DOMAIN file :
              file[j].employee_id = e => file[j].submission_date <= file[i].submission_date}

\* perform_full_sync: one update_item per employee, from the kept row.
FullSync(file) ==
    /\ syncs < MaxSyncs
    /\ syncs' = syncs + 1
    /\ \E keep \in [SyncEmps -> DOMAIN file] :
          /\ \A e \in SyncEmps :
                LatestRows(file, e) # {} => keep[e] \in LatestRows(file, e)
          /\ emp_metrics' =
                [e \in SyncEmps |->
                    IF LatestRows(file, e) = {} THEN emp_metrics[e]
                    ELSE update_item(emp_metrics[e], file[keep[e]],
                                     file[keep[e]].has, syncs + 1)]
    /\ last_sync' = [site |-> "full_sync", file |-> file]

UploadSyncStep ==
    \E file \in Files, burnoutColumn \in BOOLEAN :
        UploadSync(file, burnoutColumn) /\ UNCHANGED otherThanSync
FullSyncStep == \E file \in Files : FullSync(file) /\ UNCHANGED otherThanSync

NextSync ==
    \/ UploadSyncStep
    \/ FullSyncStep

\* The employees with a row in the file of the last sync.
Synced == {last_sync.file[i].employee_id : i \in DOMAIN last_sync.file}

\* The greatest submission date of employee e in the file of the last sync.
NewestDate(e) ==
    LET rows == LatestRows(last_sync.file, e)
    IN  last_sync.file[CHOOSE i \in rows : TRUE].submission_date

(***************************************************************************)
(* C12: after a CSV upload has been synchronised the metrics stored for    *)
(* each employee are those computed from the employee's most recent        *)
(* submission in the upload, whatever the order of the rows in the file.   *)
(***************************************************************************)
C12_LatestSubmissionStored ==
    last_sync.site # "none" =>
        \A e \in Synced, f \in SyncFields :
            emp_metrics[e][f].sync = syncs
                => emp_metrics[e][f].date = NewestDate(e)

(***************************************************************************)
(* C13: a sync overwrites an employee's metrics wholesale: after it none   *)
(* of the employee's stored rate or dimension values stems from an earlier *)
(* sync, also when the new submission has a null rate or dimension.        *)
(***************************************************************************)
C13_OverwrittenWholesale ==
    last_sync.site # "none" =>
        \A e \in Synced, f \in SyncFields :
            emp_metrics[e][f] = NoVal \/ emp_metrics[e][f].sync = syncs


(***************************************************************************)
(* The risk labels.  A rate is a number of hundredths of a point, as       *)
(* safe_decimal stores it, from 0 to 100 points; Null is None or NaN.      *)
(***************************************************************************)
Scale == 100
MaxRate == 100
Null == -1
RateValues == 0 .. (MaxRate * Scale)
RateOrNull == RateValues \cup {Null}
MetricTypes == {"score", "rate", "inverse"}
Labels == {"healthy", "watch", "warning", "critical"}
LabelArgs == Labels \cup {"unknown"}

\* The rates next to a threshold of either table, and the two ends.
Thresholds == {20, 35, 50, 55, 65, 75}
Marks == {t * Scale + d : t \in Thresholds, d \in {-1, 0, 1}} \cup {0, MaxRate * Scale}
MarkOrNull == Marks \cup {Null}

\* team.py calculate_risk_label, with "healthy" at 75 points and above
calculate_risk_label_inclusive(value, metric_type) ==
    IF value = Null THEN "healthy"
    ELSE IF metric_type = "score"
         THEN IF value >= 75 * Scale THEN "healthy"
              ELSE IF value > 65 * Scale THEN "watch"
              ELSE IF value >= 55 * Scale THEN "warning"
              ELSE "critical"
         ELSE IF value <= 20 * Scale THEN "healthy"
              ELSE IF value <= 35 * Scale THEN "watch"
              ELSE IF value <= 50 * Scale THEN "warning"
              ELSE "critical"

\* team.py calculate_risk_label
calculate_risk_label(value, metric_type) ==
    IF value = Null THEN "healthy"
    ELSE IF metric_type = "score"
         THEN IF value > 75 * Scale THEN "healthy"
              ELSE IF value > 65 * Scale THEN "watch"
              ELSE IF value >= 55 * Scale THEN "warning"
              ELSE "critical"
         ELSE IF value <= 20 * Scale THEN "healthy"
              ELSE IF value <= 35 * Scale THEN "watch"
              ELSE IF value <= 50 * Scale THEN "warning"
              ELSE "critical"

\* departments.py calculate_risk_label
departments_calculate_risk_label(value, metric_type) ==
    IF value = Null THEN "healthy"
    ELSE IF metric_type = "score"
         THEN IF value > 75 * Scale THEN "healthy"
              ELSE IF value > 65 * Scale THEN "watch"
              ELSE IF value >= 55 * Scale THEN "warning"
              ELSE "critical"
         ELSE IF value <= 20 * Scale THEN "healthy"
              ELSE IF value <= 35 * Scale THEN "watch"
              ELSE IF value <= 50 * Scale THEN "warning"
              ELSE "critical"

\* risk_weights.get(label, 1)
risk_weights(label) ==
    CASE label = "critical" -> 4
      [] label = "warning" -> 3
      [] label = "watch" -> 2
      [] OTHER -> 1

Max3(a, b, c) ==
    IF a >= b /\ a >= c THEN a ELSE IF b >= c THEN b ELSE c

\* team.py determine_overall_risk, with the attrition label left out
determine_overall_risk_without_att(eng, burn, att) ==
    LET max_risk == Max3(risk_weights(eng), risk_weights(burn), 1)
    IN  CHOOSE k \in Labels : risk_weights(k) = max_risk

\* team.py determine_overall_risk
determine_overall_risk(eng, burn, att) ==
    LET max_risk == Max3(risk_weights(eng), risk_weights(burn), risk_weights(att))
    IN  CHOOSE k \in Labels : risk_weights(k) = max_risk

\* upload.py calculate_overall_risk: None and 0 both count as 0.
calculate_overall_risk(engagement, attrition, stress) ==
    LET e == IF engagement = Null THEN 0 ELSE engagement
        a == IF attrition = Null THEN 0 ELSE attrition
        s == IF stress = Null THEN 0 ELSE stress
    IN  IF e < 55 * Scale \/ s > 50 * Scale \/ a > 50 * Scale THEN "critical"
        ELSE IF e < 65 * Scale \/ s > 35 * Scale \/ a > 35 * Scale THEN "warning"
        ELSE "healthy"

NoCall == [fn |-> "none", value |-> Null, metric_type |-> "none",
           labels |-> <<>>, rates |-> <<>>, result |-> "none"]

RiskInit == risk_call = NoCall

TeamLabel(value, metric_type) ==
    /\ risk_call = NoCall
    /\ risk_call' = [fn |-> "team.calculate_risk_label", value |-> value,
                     metric_type |-> metric_type, labels |-> <<>>, rates |-> <<>>,
                     result |-> calculate_risk_label(value, metric_type)]

DepartmentsLabel(value, metric_type) ==
    /\ risk_call = NoCall
    /\ risk_call' = [fn |-> "departments.calculate_risk_label", value |-> value,
                     metric_type |-> metric_type, labels |-> <<>>, rates |-> <<>>,
                     result |-> departments_calculate_risk_label(value, metric_type)]

DetermineOverallRisk(eng, burn, att) ==
    /\ risk_call = NoCall
    /\ risk_call' = [fn |-> "determine_overall_risk", value |-> Null,
                     metric_type |-> "none", labels |-> <<eng, burn, att>>,
                     rates |-> <<>>,
                     result |-> determine_overall_risk(eng, burn, att)]

\* update_departments_from_survey, for one department: the means of the
\* three rates and the overall_risk written with them.
UpdateDepartment(eng, att, stress) ==
    /\ risk_call = NoCall
    /\ risk_call' = [fn |-> "update_departments_from_survey", value |-> Null,
                     metric_type |-> "none", labels |-> <<>>,
                     rates |-> <<eng, att, stress>>,
                     result |-> calculate_overall_risk(eng, att, stress)]

RiskReturn ==
    /\ risk_call # NoCall
    /\ risk_call' = NoCall

TeamLabelStep ==
    /\ risk_call = NoCall
    /\ \E value \in RateOrNull, metric_type \in MetricTypes :
        TeamLabel(value, metric_type) /\ UNCHANGED otherThanRisk
DepartmentsLabelStep ==
    /\ risk_call = NoCall
    /\ \E value \in RateOrNull, metric_type \in MetricTypes :
        DepartmentsLabel(value, metric_type) /\ UNCHANGED otherThanRisk
DetermineOverallRiskStep ==
    /\ risk_call = NoCall
    /\ \E eng \in LabelArgs, burn \in LabelArgs, att \in LabelArgs :
        DetermineOverallRisk(eng, burn, att) /\ UNCHANGED otherThanRisk
UpdateDepartmentStep ==
    /\ risk_call = NoCall
    /\ \E eng \in MarkOrNull, att \in MarkOrNull, stress \in MarkOrNull :
        UpdateDepartment(eng, att, stress) /\ UNCHANGED otherThanRisk
RiskReturnStep == RiskReturn /\ UNCHANGED otherThanRisk

NextRisk ==
    \/ TeamLabelStep
    \/ DepartmentsLabelStep
    \/ DetermineOverallRiskStep
    \/ UpdateDepartmentStep
    \/ RiskReturnStep

(***************************************************************************)
(* C14: the overall_risk the upload sync writes to a department equals the *)
(* label got by labelling the mean engagement rate with the                *)
(* higher-is-better table, the mean stress and attrition rates with the    *)
(* lower-is-better table, and combining the three by maximum severity.     *)
(***************************************************************************)
C14_OverallRiskIsCombinedLabel ==
    risk_call.fn = "update_departments_from_survey" =>
        risk_call.result =
            determine_overall_risk(calculate_risk_label(risk_call.rates[1], "score"),
                                   calculate_risk_label(risk_call.rates[3], "rate"),
                                   calculate_risk_label(risk_call.rates[2], "rate"))

\* The higher-is-better table, as the claim words it.
ScoreTable(v, r) ==
    /\ (r = "healthy") <=> (v > 75 * Scale)
    /\ (r = "watch") <=> (65 * Scale < v /\ v <= 75 * Scale)
    /\ (r = "warning") <=> (55 * Scale <= v /\ v <= 65 * Scale)
    /\ (r = "critical") <=> (v < 55 * Scale)

\* The lower-is-better table, as the claim words it.
RateTable(v, r) ==
    /\ (r = "healthy") <=> (v <= 20 * Scale)
    /\ (r = "watch") <=> (20 * Scale < v /\ v <= 35 * Scale)
    /\ (r = "warning") <=> (35 * Scale < v /\ v <= 50 * Scale)
    /\ (r = "critical") <=> (v > 50 * Scale)

LabelCall == risk_call.fn \in {"team.calculate_risk_label",
                               "departments.calculate_risk_label"}

(***************************************************************************)
(* C15: calculate_risk_label agrees with the threshold tables on every     *)
(* input, a null value is healthy under either metric type, and the copy   *)
(* of team.py and the copy of departments.py return the same label.        *)
(***************************************************************************)
C15_LabelMatchesTables ==
    LabelCall =>
        LET v == risk_call.value
            t == risk_call.metric_type
            r == risk_call.result
        IN  /\ r \in Labels
            /\ v = Null => r = "healthy"
            /\ (v # Null /\ t = "score") => ScoreTable(v, r)
            /\ (v # Null /\ t # "score") => RateTable(v, r)
            /\ r = calculate_risk_label(v, t)
            /\ r = departments_calculate_risk_label(v, t)

C15_Witness ==
    /\ risk_call.fn = "departments.calculate_risk_label"
    /\ risk_call.value = 75 * Scale
    /\ risk_call.metric_type = "score"
    /\ risk_call.result = "watch"

\* The severity of a label in the order healthy < watch < warning < critical.
Severity(label) ==
    CASE label = "healthy" -> 1
      [] label = "watch" -> 2
      [] label = "warning" -> 3
      [] label = "critical" -> 4
      [] OTHER -> 1

(***************************************************************************)
(* C16: determine_overall_risk returns the most severe of its three        *)
(* labels, whatever the order of its arguments; an unrecognised label      *)
(* counts as healthy.                                                      *)
(***************************************************************************)
C16_MostSevereOfThree ==
    risk_call.fn = "determine_overall_risk" =>
        LET l == risk_call.labels
            r == risk_call.result
        IN  /\ r \in Labels
            /\ \A i \in 1..3 : Severity(l[i]) <= Severity(r)
            /\ \E i \in 1..3 : Severity(l[i]) = Severity(r)
            /\ \A p \in Perms(1..3) :
                  determine_overall_risk(l[p[1]], l[p[2]], l[p[3]]) = r

C16_Witness ==
    /\ risk_call.fn = "determine_overall_risk"
    /\ risk_call.labels = <<"healthy", "unknown", "watch">>
    /\ risk_call.result = "watch"


(***************************************************************************)
(* The metrics filter.  The frame filter_metrics receives has one row for  *)
(* each (Department, Year, Quarter) group of the analysis.  A mean is kept *)
(* as the sum and the number of the values it is the mean of; NoMean is    *)
(* the mean that is None.                                                  *)
(***************************************************************************)
None == "None"
NoYear == 0
MetricDepartments == {"HR", "IT"}
MetricQuarters == {"Q1", "Q3"}
Years == {2024, 2025}
CurrentYear == 2025
quarters == <<"Q1", "Q2", "Q3", "Q4">>
NoMean == [sum |-> 0, n |-> 0]

MetricRow ==
    [Department : MetricDepartments, Quarter : MetricQuarters, Year : Years,
     Response_Count : {1, 2}, Burnout_Rate : {Null, 40},
     Turnover_Risk : {10}, eNPS : {20}, Overall_Engagement : {60}]

GroupKey(r) == <<r.Department, r.Year, r.Quarter>>

RECURSIVE FramesUpTo(_)
FramesUpTo(n) ==
    IF n = 0 THEN {{}}
    ELSE LET smaller == FramesUpTo(n - 1)
         IN  smaller \cup
             UNION {{f \cup {r} : r \in {x \in MetricRow :
                                             \A y \in f : GroupKey(y) # GroupKey(x)}} :
                    f \in smaller}

MetricFrames == FramesUpTo(MaxGroups)

\* str.lower() and str.upper() on the names that occur
lower(str) ==
    CASE str = "HR" -> "hr"
      [] str = "IT" -> "it"
      [] OTHER -> str

upper(str) ==
    CASE str = "q1" -> "Q1"
      [] str = "q3" -> "Q3"
      [] OTHER -> str

RECURSIVE ColumnSum(_, _)
ColumnSum(df, col) ==
    IF df = {} THEN 0
    ELSE LET r == CHOOSE x \in df : TRUE
         IN  r[col] + ColumnSum(df \ {r}, col)

\* df[col].mean(), NaN made None: the mean of the values that are not null
ColumnMean(df, col) ==
    LET valued == {r \in df : r[col] # Null}
    IN  IF valued = {} THEN NoMean
        ELSE [sum |-> ColumnSum(valued, col), n |-> Cardinality(valued)]

\* df.to_dict(orient="records")
RECURSIVE to_dict(_)
to_dict(df) ==
    IF df = {} THEN <<>>
    ELSE LET r == CHOOSE x \in df : TRUE
         IN  <<r>> \o to_dict(df \ {r})

\* aggregate_dataframe, with the label "All" whatever department_name is
aggregate_dataframe_unlabelled(df, department_name, year, quarter) ==
    [Department |-> "All", Quarter |-> quarter, Year |-> year,
     Response_Count |-> ColumnSum(df, "Response_Count"),
     Burnout_Rate |-> ColumnMean(df, "Burnout_Rate"),
     Turnover_Risk |-> ColumnMean(df, "Turnover_Risk"),
     eNPS |-> ColumnMean(df, "eNPS"),
     Overall_Engagement |-> ColumnMean(df, "Overall_Engagement")]

aggregate_dataframe(df, department_name, year, quarter) ==
    [Department |-> department_name, Quarter |-> quarter, Year |-> year,
     Response_Count |-> ColumnSum(df, "Response_Count"),
     Burnout_Rate |-> ColumnMean(df, "Burnout_Rate"),
     Turnover_Risk |-> ColumnMean(df, "Turnover_Risk"),
     eNPS |-> ColumnMean(df, "eNPS"),
     Overall_Engagement |-> ColumnMean(df, "Overall_Engagement")]

\* filter_metrics, with 0 for the rates of a quarter without rows
filter_metrics_zero_fill(df0, department, quarter, year0, group_by) ==
    LET year == IF year0 = NoYear THEN CurrentYear ELSE year0
        df == {r \in df0 : r.Year = year}
    IN  IF group_by = "quarter"
        THEN LET dfd == IF department # None
                        THEN {r \in df : lower(r.Department) = lower(department)}
                        ELSE df
             IN  [i \in 1..4 |->
                    LET q == quarters[i]
                        q_df == {r \in dfd : upper(r.Quarter) = upper(q)}
                    IN  IF q_df = {}
                        THEN [Department |-> IF department # None THEN department
                                             ELSE "All",
                              Quarter |-> q, Year |-> year, Response_Count |-> 0,
                              Burnout_Rate |-> [sum |-> 0, n |-> 1],
                              Turnover_Risk |-> [sum |-> 0, n |-> 1],
                              eNPS |-> [sum |-> 0, n |-> 1],
                              Overall_Engagement |-> [sum |-> 0, n |-> 1]]
                        ELSE aggregate_dataframe(q_df,
                                 IF department # None THEN department ELSE "All",
                                 year, q)]
        ELSE LET dfq == IF quarter # None
                        THEN {r \in df : upper(r.Quarter) = upper(quarter)}
                        ELSE df
             IN  IF department # None
                 THEN LET dfd == {r \in dfq : lower(r.Department) = lower(department)}
                      IN  IF quarter # None THEN to_dict(dfd)
                          ELSE <<aggregate_dataframe(dfd, department, year, "All")>>
                 ELSE IF quarter # None
                      THEN <<aggregate_dataframe(dfq, "All", year, quarter)>>
                      ELSE <<aggregate_dataframe(dfq, "All", year, "All")>>

filter_metrics(df0, department, quarter, year0, group_by) ==
    LET year == IF year0 = NoYear THEN CurrentYear ELSE year0
        df == {r \in df0 : r.Year = year}
    IN  IF group_by = "quarter"
        THEN LET dfd == IF department # None
                        THEN {r \in df : lower(r.Department) = lower(department)}
                        ELSE df
             IN  [i \in 1..4 |->
                    LET q == quarters[i]
                        q_df == {r \in dfd : upper(r.Quarter) = upper(q)}
                    IN  IF q_df = {}
                        THEN [Department |-> IF department # None THEN department
                                             ELSE "All",
                              Quarter |-> q, Year |-> year, Response_Count |-> 0,
                              Burnout_Rate |-> NoMean, Turnover_Risk |-> NoMean,
                              eNPS |-> NoMean, Overall_Engagement |-> NoMean]
                        ELSE aggregate_dataframe(q_df,
                                 IF department # None THEN department ELSE "All",
                                 year, q)]
        ELSE LET dfq == IF quarter # None
                        THEN {r \in df : upper(r.Quarter) = upper(quarter)}
                        ELSE df
             IN  IF department # None
                 THEN LET dfd == {r \in dfq : lower(r.Department) = lower(department)}
                      IN  IF quarter # None THEN to_dict(dfd)
                          ELSE <<aggregate_dataframe(dfd, department, year, "All")>>
                 ELSE IF quarter # None
                      THEN <<aggregate_dataframe(dfq, "All", year, quarter)>>
                      ELSE <<aggregate_dataframe(dfq, "All", year, "All")>>

NoMetricsCall == [df |-> {}, department |-> None, quarter |-> None, year |-> NoYear,
                  group_by |-> "idle", result |-> <<>>]

FilterInit == metrics_call = NoMetricsCall

\* get_metrics calls filter_metrics on the frame of the analysis.
FilterMetrics(df, department, quarter, year, group_by) ==
    /\ metrics_call = NoMetricsCall
    /\ metrics_call' = [df |-> df, department |-> department, quarter |-> quarter,
                        year |-> year, group_by |-> group_by,
                        result |-> filter_metrics(df, department, quarter, year,
                                                  group_by)]

FilterReturn ==
    /\ metrics_call # NoMetricsCall
    /\ metrics_call' = NoMetricsCall

FilterMetricsStep ==
    /\ metrics_call = NoMetricsCall
    /\ \E df \in MetricFrames, department \in {None, "hr", "IT"},
          quarter \in {None, "q1", "Q3"}, year \in Years \cup {NoYear},
          group_by \in {None, "quarter"} :
          FilterMetrics(df, department, quarter, year, group_by)
                /\ UNCHANGED otherThanFilter
FilterReturnStep == FilterReturn /\ UNCHANGED otherThanFilter

NextFilter ==
    \/ FilterMetricsStep
    \/ FilterReturnStep

\* The year a call selects.
SelectedYear == IF metrics_call.year = NoYear THEN CurrentYear ELSE metrics_call.year

\* The rows of the call's frame of the selected year, of department d
\* (any when None) and of quarter q (any when None), letter case aside.
Matching(d, q) ==
    {r \in metrics_call.df :
        /\ r.Year = SelectedYear
        /\ d # None => lower(r.Department) = lower(d)
        /\ q # None => upper(r.Quarter) = upper(q)}

RateColumns == {"Burnout_Rate", "Turnover_Risk", "eNPS", "Overall_Engagement"}

(***************************************************************************)
(* C17: with group_by = "quarter" filter_metrics returns exactly four      *)
(* rows, for Q1, Q2, Q3, Q4 in that order, for the selected year and the   *)
(* department when given; a quarter without matching rows has              *)
(* Response_Count 0 and its four rates null, not 0.                        *)
(***************************************************************************)
C17_FourQuarterRows ==
    metrics_call.group_by = "quarter" =>
        LET res == metrics_call.result
            d == metrics_call.department
        IN  /\ Len(res) = 4
            /\ \A i \in 1..4 :
                  /\ res[i].Quarter = quarters[i]
                  /\ res[i].Year = SelectedYear
                  /\ res[i].Department = (IF d # None THEN d ELSE "All")
                  /\ Matching(d, quarters[i]) = {} =>
                        /\ res[i].Response_Count = 0
                        /\ \A col \in RateColumns : res[i][col] = NoMean
                  /\ Matching(d, quarters[i]) # {} =>
                        res[i].Response_Count =
                            ColumnSum(Matching(d, quarters[i]), "Response_Count")

C17_Witness ==
    /\ metrics_call.group_by = "quarter"
    /\ metrics_call.department = "hr"
    /\ metrics_call.result[1].Response_Count > 0
    /\ metrics_call.result[3].Response_Count = 0
    /\ \E r \in metrics_call.df : r.Quarter = "Q3" /\ r.Year = SelectedYear

(***************************************************************************)
(* C18: without group_by filter_metrics returns, with department and       *)
(* quarter, the matching rows unaggregated; with department only, one      *)
(* aggregated row labelled with the department and Quarter "All"; with     *)
(* quarter only, one aggregated row with Department "All" and that         *)
(* quarter; with neither, one aggregated row with Department "All".        *)
(***************************************************************************)
C18_FilterCombinationPolicy ==
    metrics_call.group_by = None =>
        LET res == metrics_call.result
            d == metrics_call.department
            q == metrics_call.quarter
            aggregated == /\ Len(res) = 1
                          /\ res[1].Year = SelectedYear
                          /\ res[1].Response_Count =
                                ColumnSum(Matching(d, q), "Response_Count")
        IN  /\ (d # None /\ q # None) =>
                  /\ {res[i] : i \in DOMAIN res} = Matching(d, q)
                  /\ Len(res) = Cardinality(Matching(d, q))
            /\ (d # None /\ q = None) =>
                  aggregated /\ res[1].Department = d /\ res[1].Quarter = "All"
            /\ (d = None /\ q # None) =>
                  aggregated /\ res[1].Department = "All" /\ res[1].Quarter = q
            /\ (d = None /\ q = None) =>
                  aggregated /\ res[1].Department = "All"

C18_Witness ==
    /\ metrics_call.group_by = None
    /\ metrics_call.department = "IT"
    /\ metrics_call.quarter = None
    /\ Cardinality(Matching("IT", None)) = 2
    /\ metrics_call.result[1].Department = "IT"
    /\ metrics_call.result[1].Quarter = "All"
    /\ metrics_call.result[1].Response_Count = 3


(***************************************************************************)
(* The row metrics.  A frame of one row: for each question column, by its  *)
(* number, the answer of the row, Null for an empty cell, Absent when the  *)
(* frame has no such column.  A dimension is kept as twice its mean, a     *)
(* rate in hundredths of a point.                                          *)
(***************************************************************************)
QuestionCols == {1, 3, 7, 9, 10, 12}
Absent == -2
NoCol == 0
Answers == {1, 4, 6}
SurveyFrames == [QuestionCols -> Answers \cup {Null, Absent}]

Dim_Employee_Engagement == <<1, 9>>
Dim_Enablement == <<3, 11>>
Dim_Culture_Values == <<7, 15>>

IsValue(v) == v # Null
IsCol(c) == c # NoCol

\* data[cols].mean(axis=1), twice: the mean of the cells that are not empty
Mean2(cells) ==
    LET valued == SelectSeq(cells, IsValue)
    IN  IF Len(valued) = 0 THEN Null
        ELSE IF Len(valued) = 1 THEN 2 * valued[1]
        ELSE valued[1] + valued[2]

\* .clip(0, 100)
Clip(x) ==
    IF x < 0 THEN 0 ELSE IF x > MaxRate * Scale THEN MaxRate * Scale ELSE x

\* ((dim - 1) / 4 * 100).clip(0, 100), NaN for a dimension that is NaN
EngagementOf(dim2) == IF dim2 = Null THEN Null ELSE Clip((dim2 - 2) * 1250)

\* ((6 - (a + b) / 2 - 1) / 4 * 100).clip(0, 100), a and b given twice
InverseOf(a2, b2) ==
    IF a2 = Null \/ b2 = Null THEN Null ELSE Clip((20 - (a2 + b2)) * 625)

\* get_col(q_num) of calculate_row_metrics: the column of that number
get_col(df, q_num) ==
    IF q_num \in QuestionCols /\ df[q_num] # Absent THEN q_num ELSE NoCol

\* c.startswith("Q" + n) for the column of number c
StartsWithQ(c, n) == c = n \/ (c >= 10 /\ c \div 10 = n)

\* The match of calculate_survey_metrics: the first column, in column
\* order, that holds the question's name or starts with its "Qn".
match(df, q_num) ==
    LET found == {c \in QuestionCols : df[c] # Absent /\ StartsWithQ(c, q_num)}
    IN  IF found = {} THEN NoCol
        ELSE CHOOSE c \in found : \A d \in found : c <= d

Cells(df, cols) == [i \in DOMAIN cols |-> df[cols[i]]]

calculate_row_metrics(df) ==
    LET dimension(q_nums) ==
            LET cols == SelectSeq([i \in DOMAIN q_nums |-> get_col(df, q_nums[i])], IsCol)
            IN  IF cols # <<>> THEN Mean2(Cells(df, cols)) ELSE Null
        q1_col == get_col(df, 1)
        q12_col == get_col(df, 12)
    IN  [outcome |-> "returned",
         engagement_rate |-> EngagementOf(dimension(Dim_Employee_Engagement)),
         stress_rate |-> InverseOf(dimension(Dim_Enablement),
                                   dimension(Dim_Culture_Values)),
         attrition_rate |->
            IF q1_col # NoCol /\ q12_col # NoCol
            THEN IF df[q1_col] = Null \/ df[q12_col] = Null THEN Null
                 ELSE InverseOf(2 * df[q1_col], 2 * df[q12_col])
            ELSE Null]

calculate_survey_metrics(df) ==
    LET dimension(q_nums) ==
            LET relevant_cols ==
                    SelectSeq([i \in DOMAIN q_nums |-> match(df, q_nums[i])], IsCol)
            IN  IF relevant_cols # <<>> THEN Mean2(Cells(df, relevant_cols)) ELSE 0
        q1 == get_col(df, 1)
        q12 == get_col(df, 12)
    IN  [outcome |-> "returned",
         engagement_rate |-> EngagementOf(dimension(Dim_Employee_Engagement)),
         stress_rate |-> InverseOf(dimension(Dim_Enablement),
                                   dimension(Dim_Culture_Values)),
         attrition_rate |->
            IF q1 # NoCol /\ q12 # NoCol
            THEN IF df[q1] = Null \/ df[q12] = Null THEN Null
                 ELSE InverseOf(2 * df[q1], 2 * df[q12])
            ELSE 0]

NoRatesCall == [fn |-> "none", df |-> [c \in QuestionCols |-> Absent],
                result |-> [outcome |-> "none", engagement_rate |-> Null,
                            stress_rate |-> Null, attrition_rate |-> Null]]

RatesInit == rates_call = NoRatesCall

RowMetrics(df) ==
    /\ rates_call = NoRatesCall
    /\ rates_call' = [fn |-> "calculate_row_metrics", df |-> df,
                      result |-> calculate_row_metrics(df)]

SurveyMetrics(df) ==
    /\ rates_call = NoRatesCall
    /\ rates_call' = [fn |-> "calculate_survey_metrics", df |-> df,
                      result |-> calculate_survey_metrics(df)]

RatesReturn ==
    /\ rates_call # NoRatesCall
    /\ rates_call' = NoRatesCall

RowMetricsStep ==
    /\ rates_call = NoRatesCall
    /\ \E df \in SurveyFrames : RowMetrics(df) /\ UNCHANGED otherThanRates
SurveyMetricsStep ==
    /\ rates_call = NoRatesCall
    /\ \E df \in SurveyFrames : SurveyMetrics(df) /\ UNCHANGED otherThanRates
RatesReturnStep == RatesReturn /\ UNCHANGED otherThanRates

NextRates ==
    \/ RowMetricsStep
    \/ SurveyMetricsStep
    \/ RatesReturnStep

RateNames == {"engagement_rate", "stress_rate", "attrition_rate"}

\* The question columns a rate is computed from.
SourceCols(rate) ==
    CASE rate = "engagement_rate" -> {1, 9}
      [] rate = "stress_rate" -> {3, 7}
      [] rate = "attrition_rate" -> {1, 12}

\* The source columns of the rate that the frame of the call has.
Present(rate) == {c \in SourceCols(rate) : rates_call.df[c] # Absent}

(***************************************************************************)
(* C19: after the row-metric calculation each of engagement_rate,          *)
(* stress_rate and attrition_rate is null or within 0..100, and it is null *)
(* exactly when the source columns of that rate are entirely absent from   *)
(* the input.                                                              *)
(***************************************************************************)
C19_RateNullIffSourcesAbsent ==
    rates_call.fn # "none" =>
        /\ rates_call.result.outcome = "returned"
        /\ \A rate \in RateNames :
              LET v == rates_call.result[rate]
              IN  /\ v = Null \/ (0 <= v /\ v <= MaxRate * Scale)
                  /\ (v = Null) <=> (Present(rate) = {})

\* The rate computed from its own questions alone: the mean of the
\* engagement questions, the inverse of enablement and culture, the
\* inverse of Q1 and Q12.
OwnRate(rate) ==
    LET df == rates_call.df
        own(cols) == Mean2(Cells(df, SelectSeq(cols, LAMBDA c : df[c] # Absent)))
    IN  CASE rate = "engagement_rate" -> EngagementOf(own(<<1, 9>>))
          [] rate = "stress_rate" -> InverseOf(own(<<3>>), own(<<7>>))
          [] rate = "attrition_rate" -> InverseOf(2 * df[1], 2 * df[12])

\* The rate can be computed from its own questions: an engagement
\* question is there and those that are there are answered; enablement and
\* culture are both answered; Q1 and Q12 are both answered.
Computable(rate) ==
    /\ Present(rate) # {}
    /\ \A c \in Present(rate) : rates_call.df[c] \in Answers
    /\ rate # "engagement_rate" => Present(rate) = SourceCols(rate)

(***************************************************************************)
(* C20: the three rates are computed independently: when the input         *)
(* columns of one rate are missing, both calculations still return         *)
(* normally, with the other rates computed from their own inputs.          *)
(***************************************************************************)
C20_RatesIndependent ==
    (rates_call.fn # "none" /\ \E missing \in RateNames : Present(missing) = {}) =>
        /\ rates_call.result.outcome = "returned"
        /\ \A rate \in RateNames :
              Computable(rate) => rates_call.result[rate] = OwnRate(rate)

(***************************************************************************)
(* The temporal enrichment.  A submission date is a day of a calendar      *)
(* year, written as YYYY-MM-DD ("iso") or in another format pandas still   *)
(* parses ("other"), or text that is no date ("garbage"), or an empty cell *)
(* ("nan").  An event_season is the set of its (tag, holiday) matches.     *)
(***************************************************************************)
YearDays == 365
Window == 15
DefaultYear == 2026
CalendarYears == {2025, 2026}
NoMonth == 0
NullSeason == {<<"null", "">>}
NormalDay == {<<"normal day", "">>}

SubmissionDates ==
    [kind : {"iso", "other"}, year : CalendarYears, day : 1..YearDays]
        \cup [kind : {"garbage", "nan"}, year : {NoYear}, day : {0}]

\* holidays.MY(years=year): the public holidays of the year, by day of the year
my_holidays(year) ==
    {[day |-> 121, name |-> "Labour Day"],
     [day |-> IF year = 2025 THEN 153 ELSE 152, name |-> "Birthday of SPB Yang di-Pertuan Agong"],
     [day |-> 243, name |-> "National Day"],
     [day |-> 259, name |-> "Malaysia Day"],
     [day |-> 359, name |-> "Christmas Day"]}

\* The number of the day on the time line that starts with 2025.
AbsDay(year, day) == (year - 2025) * YearDays + day

\* date_obj.month
MonthOf(day) ==
    IF day <= 31 THEN 1 ELSE IF day <= 59 THEN 2 ELSE IF day <= 90 THEN 3
    ELSE IF day <= 120 THEN 4 ELSE IF day <= 151 THEN 5 ELSE IF day <= 181 THEN 6
    ELSE IF day <= 212 THEN 7 ELSE IF day <= 243 THEN 8 ELSE IF day <= 273 THEN 9
    ELSE IF day <= 304 THEN 10 ELSE IF day <= 334 THEN 11 ELSE 12

\* get_quarter for a date that strptime accepts
get_quarter(day) ==
    LET month == MonthOf(day)
    IN  IF month <= 3 THEN "Q1" ELSE IF month <= 6 THEN "Q2"
        ELSE IF month <= 9 THEN "Q3" ELSE "Q4"

SeasonTag(days_diff) ==
    IF days_diff = 0 THEN "festival"
    ELSE IF -Window <= days_diff /\ days_diff < 0 THEN "pre-festival"
    ELSE IF 0 < days_diff /\ days_diff <= Window THEN "post-festival"
    ELSE "none"

classify_festival_date(input_date, year) ==
    LET days_diff(h) == AbsDay(input_date.year, input_date.day) - AbsDay(year, h.day)
        results == {<<SeasonTag(days_diff(h)), h.name>> :
                       h \in {x \in my_holidays(year) : SeasonTag(days_diff(x)) # "none"}}
    IN  IF results = {} THEN NormalDay ELSE results

\* The temporal part of calculate_row_metrics for one cell of the date
\* column; parsed tells whether pd.to_datetime of the column, which takes
\* its format from the first value, parses this cell or coerces it to NaT.
row_temporal(d, parsed) ==
    [quarter |-> IF d.kind = "iso" THEN get_quarter(d.day) ELSE None,
     event_season |-> IF d.kind = "iso" THEN classify_festival_date(d, DefaultYear)
                      ELSE NormalDay,
     month |-> IF parsed THEN MonthOf(d.day) ELSE NoMonth,
     year |-> IF parsed THEN d.year ELSE NoYear]

\* The loop of process_file_background over the rows, for one row.
upload_temporal(d, row) ==
    IF d.kind \in {"iso", "other"}
    THEN [quarter |-> get_quarter(d.day),
          event_season |-> classify_festival_date(d, d.year),
          month |-> MonthOf(d.day),
          year |-> d.year]
    ELSE row

NoTemporalCall == [fn |-> "none", date |-> [kind |-> "nan", year |-> NoYear, day |-> 0],
                   result |-> [quarter |-> None, event_season |-> NullSeason,
                               month |-> NoMonth, year |-> NoYear]]

TemporalInit == temporal_call = NoTemporalCall

Parses(d) == IF d.kind \in {"iso", "other"} THEN BOOLEAN ELSE {FALSE}

RowTemporal(d, parsed) ==
    /\ temporal_call = NoTemporalCall
    /\ temporal_call' = [fn |-> "calculate_row_metrics", date |-> d,
                         result |-> row_temporal(d, parsed)]

UploadTemporal(d, parsed) ==
    /\ temporal_call = NoTemporalCall
    /\ temporal_call' = [fn |-> "process_file_background", date |-> d,
                         result |-> upload_temporal(d, row_temporal(d, parsed))]

TemporalReturn ==
    /\ temporal_call # NoTemporalCall
    /\ temporal_call' = NoTemporalCall

RowTemporalStep ==
    /\ temporal_call = NoTemporalCall
    /\ \E d \in SubmissionDates : \E parsed \in Parses(d) :
          RowTemporal(d, parsed) /\ UNCHANGED otherThanTemporal
UploadTemporalStep ==
    /\ temporal_call = NoTemporalCall
    /\ \E d \in SubmissionDates : \E parsed \in Parses(d) :
          UploadTemporal(d, parsed) /\ UNCHANGED otherThanTemporal
TemporalReturnStep == TemporalReturn /\ UNCHANGED otherThanTemporal

NextTemporal ==
    \/ RowTemporalStep
    \/ UploadTemporalStep
    \/ TemporalReturnStep

(***************************************************************************)
(* C21: for a record whose submission_date is not a valid YYYY-MM-DD date  *)
(* the derived temporal fields quarter, month, year and event_season are   *)
(* all null after the temporal enrichment.                                 *)
(***************************************************************************)
C21_InvalidDateGivesNulls ==
    (temporal_call.fn # "none" /\ temporal_call.date.kind # "iso") =>
        /\ temporal_call.result.quarter = None
        /\ temporal_call.result.month = NoMonth
        /\ temporal_call.result.year = NoYear
        /\ temporal_call.result.event_season = NullSeason

\* The holidays of the year of date d that lie diff days before d.
HolidaysAt(d, diff) == {h \in my_holidays(d.year) : d.day - h.day = diff}

\* The event season the claim gives date d.
OwnYearSeason(d) ==
    LET matches ==
            {<<"festival", h.name>> : h \in HolidaysAt(d, 0)}
            \cup UNION {{<<"pre-festival", h.name>> : h \in HolidaysAt(d, -k)} : k \in 1..Window}
            \cup UNION {{<<"post-festival", h.name>> : h \in HolidaysAt(d, k)} : k \in 1..Window}
    IN  IF matches = {} THEN NormalDay ELSE matches

(***************************************************************************)
(* C22: the event_season the row-metric calculation attaches to a record   *)
(* reflects the public holidays of the record's own calendar year:         *)
(* festival on the day, pre-festival 1 to 15 days before, post-festival 1  *)
(* to 15 days after, all matches joined, and normal day exactly when no    *)
(* holiday of that year is within 15 days.                                 *)
(***************************************************************************)
C22_SeasonOfOwnYear ==
    (temporal_call.fn = "calculate_row_metrics" /\ temporal_call.date.kind = "iso") =>
        temporal_call.result.event_season = OwnYearSeason(temporal_call.date)


(***************************************************************************)
(* The choice of the question columns of a dimension.  A frame is given by *)
(* the numbers of the question columns it has; the three sites find the    *)
(* columns of a dimension each in its own way.                             *)
(***************************************************************************)
SurveyColumns == {1, 2, 9, 10, 12, 20}
DimNames == {"Dim_Employee_Engagement", "Dim_Leadership", "Dim_Development",
             "Dim_Delight_Customer"}

\* dimension_map of calculate_row_metrics and of calculate_survey_metrics
dimension_map(dim) ==
    CASE dim = "Dim_Employee_Engagement" -> <<1, 9>>
      [] dim = "Dim_Leadership" -> <<2, 10>>
      [] dim = "Dim_Development" -> <<4, 12>>
      [] dim = "Dim_Delight_Customer" -> <<5, 13>>

\* DIMENSION_MAPPING of the upload
DIMENSION_MAPPING(dim) ==
    CASE dim = "Dim_Employee_Engagement" -> <<1, 9, 22, 23, 25, 28>>
      [] dim = "Dim_Leadership" -> <<2, 10, 18, 30>>
      [] dim = "Dim_Development" -> <<4, 12, 19>>
      [] dim = "Dim_Delight_Customer" -> <<5, 13, 20, 27>>

\* The columns that start with "Qn_": the column of question n
ExactMatches(columns, n) == {c \in columns : c = n}

\* The columns that hold the question's name or start with "Qn"
PrefixMatches(columns, n) == {c \in columns : StartsWithQ(c, n)}

\* matches[0]: the first of the matching columns in column order, if any
FirstOf(matches) ==
    IF matches = {} THEN {} ELSE {CHOOSE c \in matches : \A d \in matches : c <= d}

\* The columns a site takes for the questions q_nums of a dimension.
row_metrics_cols(columns, q_nums) ==
    UNION {FirstOf(ExactMatches(columns, q_nums[i])) : i \in DOMAIN q_nums}

survey_metrics_cols(columns, q_nums) ==
    UNION {FirstOf(PrefixMatches(columns, q_nums[i])) : i \in DOMAIN q_nums}

calculate_dimensions_cols(columns, q_nums) ==
    UNION {FirstOf(ExactMatches(columns, q_nums[i])) : i \in DOMAIN q_nums}

NoDimsCall == [fn |-> "none", columns |-> {}, used |-> [dim \in DimNames |-> {}]]

DimsInit == dims_call = NoDimsCall

RowDimensions(columns) ==
    /\ dims_call = NoDimsCall
    /\ dims_call' = [fn |-> "calculate_row_metrics", columns |-> columns,
                     used |-> [dim \in DimNames |->
                                  row_metrics_cols(columns, dimension_map(dim))]]

SurveyDimensions(columns) ==
    /\ dims_call = NoDimsCall
    /\ dims_call' = [fn |-> "calculate_survey_metrics", columns |-> columns,
                     used |-> [dim \in DimNames |->
                                  survey_metrics_cols(columns, dimension_map(dim))]]

UploadDimensions(columns) ==
    /\ dims_call = NoDimsCall
    /\ dims_call' = [fn |-> "calculate_dimensions", columns |-> columns,
                     used |-> [dim \in DimNames |->
                                  calculate_dimensions_cols(columns,
                                                            DIMENSION_MAPPING(dim))]]

DimsReturn ==
    /\ dims_call # NoDimsCall
    /\ dims_call' = NoDimsCall

RowDimensionsStep ==
    /\ dims_call = NoDimsCall
    /\ \E columns \in SUBSET SurveyColumns :
          RowDimensions(columns) /\ UNCHANGED otherThanDims
SurveyDimensionsStep ==
    /\ dims_call = NoDimsCall
    /\ \E columns \in SUBSET SurveyColumns :
          SurveyDimensions(columns) /\ UNCHANGED otherThanDims
UploadDimensionsStep ==
    /\ dims_call = NoDimsCall
    /\ \E columns \in SUBSET SurveyColumns :
          UploadDimensions(columns) /\ UNCHANGED otherThanDims
DimsReturnStep == DimsReturn /\ UNCHANGED otherThanDims

NextDims ==
    \/ RowDimensionsStep
    \/ SurveyDimensionsStep
    \/ UploadDimensionsStep
    \/ DimsReturnStep

\* The question indices mapped to a dimension at the site of the call.
MappedIndices(dim) ==
    LET q_nums == IF dims_call.fn = "calculate_dimensions" THEN DIMENSION_MAPPING(dim)
                  ELSE dimension_map(dim)
    IN  {q_nums[i] : i \in DOMAIN q_nums}

(***************************************************************************)
(* C23: a survey column contributes to a dimension only if its question    *)
(* index is in the index set mapped to the dimension: the column of        *)
(* question 10 (or 11-19, 20-29) is never used in place of question 1 (or  *)
(* 2), whichever question columns are present or absent.                   *)
(***************************************************************************)
C23_OnlyMappedColumns ==
    dims_call.fn # "none" =>
        \A dim \in DimNames : dims_call.used[dim] \subseteq MappedIndices(dim)


(***************************************************************************)
(* The department means of a sync.  The rows of the file are the           *)
(* submissions of the employees of one department, each with an engagement *)
(* rate; the mean written to the department is kept as the sum and the     *)
(* number of the rows it is taken over.                                    *)
(***************************************************************************)
DeptEmps == {"e1", "e2"}
DeptRow == [employee_id : DeptEmps, submission_date : Dates, engagement_rate : {20, 80}]

RECURSIVE DeptFilesUpTo(_)
DeptFilesUpTo(n) ==
    IF n = 0 THEN {<<>>}
    ELSE LET shorter == DeptFilesUpTo(n - 1)
         IN  shorter \cup {Append(f, r) : f \in {g \in shorter : Len(g) = n - 1},
                                          r \in DeptRow}

DeptFiles == DeptFilesUpTo(MaxFile) \ {<<>>}

RECURSIVE IndexSum(_, _)
IndexSum(file, rows) ==
    IF rows = {} THEN 0
    ELSE LET i == CHOOSE x \in rows : TRUE
         IN  file[i].engagement_rate + IndexSum(file, rows \ {i})

\* groupby(department).mean() over the rows of the given positions
group_mean(file, rows) == [sum |-> IndexSum(file, rows), n |-> Cardinality(rows)]

\* The employees with a row in the file.
EmployeesOf(file) == {file[i].employee_id : i \in DOMAIN file}

\* The sets of positions latest_employee_df can consist of: for each
\* employee one of the rows LatestRows allows.
LatestFrames(file) ==
    {{keep[e] : e \in EmployeesOf(file)} :
        keep \in {k \in [EmployeesOf(file) -> DOMAIN file] :
                     \A e \in EmployeesOf(file) : k[e] \in LatestRows(file, e)}}

NoDeptSync == [site |-> "none", file |-> <<>>, mean |-> NoMean]

DeptInit == dept_sync = NoDeptSync

\* update_departments_from_survey(df): the groupby is over the frame of
\* the upload as it is.
UploadDeptSync(file) ==
    /\ dept_sync = NoDeptSync
    /\ dept_sync' = [site |-> "upload", file |-> file,
                     mean |-> group_mean(file, DOMAIN file)]

\* perform_full_sync, step 3: the groupby is over latest_employee_df.
FullDeptSync(file) ==
    /\ dept_sync = NoDeptSync
    /\ \E latest \in LatestFrames(file) :
          dept_sync' = [site |-> "full_sync", file |-> file,
                        mean |-> group_mean(file, latest)]

DeptSyncReturn ==
    /\ dept_sync # NoDeptSync
    /\ dept_sync' = NoDeptSync

UploadDeptSyncStep ==
    /\ dept_sync = NoDeptSync
    /\ \E file \in DeptFiles : UploadDeptSync(file) /\ UNCHANGED otherThanDept
FullDeptSyncStep ==
    /\ dept_sync = NoDeptSync
    /\ \E file \in DeptFiles : FullDeptSync(file) /\ UNCHANGED otherThanDept
DeptSyncReturnStep == DeptSyncReturn /\ UNCHANGED otherThanDept

NextDept ==
    \/ UploadDeptSyncStep
    \/ FullDeptSyncStep
    \/ DeptSyncReturnStep

(***************************************************************************)
(* C26: the department means written on sync are taken over one row per    *)
(* employee, the employee's latest submission: an employee with several    *)
(* submissions in the upload is not counted more than once.                *)
(***************************************************************************)
C26_OneRowPerEmployeeInMean ==
    dept_sync.site # "none" =>
        /\ dept_sync.mean.n = Cardinality(EmployeesOf(dept_sync.file))
        /\ \E latest \in LatestFrames(dept_sync.file) :
              dept_sync.mean = group_mean(dept_sync.file, latest)


(***************************************************************************)
(* The eNPS metrics of one aggregated group.  enps_scores is the           *)
(* Q1_Recommend column of the group's survey responses after dropna(), on  *)
(* the 1-5 scale of the survey.  The eNPS is kept as the fraction          *)
(* num / den it is computed from; an empty series gives NaN.               *)
(***************************************************************************)
MaxScores == 3
ScoreScale == 1..5
NaN == [num |-> 0, den |-> 0]

RECURSIVE SeriesUpTo(_)
SeriesUpTo(n) ==
    IF n = 0 THEN {<<>>}
    ELSE LET shorter == SeriesUpTo(n - 1)
         IN  shorter \cup {Append(s, v) : s \in {g \in shorter : Len(g) = n - 1},
                                          v \in ScoreScale}

ScoreSeries == SeriesUpTo(MaxScores)

\* (scores <cond>).sum(): the number of the scores between lo and hi
CountIn(scores, lo, hi) ==
    Cardinality({i \in DOMAIN scores : scores[i] >= lo /\ scores[i] <= hi})

calculate_enps_score(scores) ==
    IF Len(scores) = 0 THEN NaN
    ELSE LET promoters == CountIn(scores, 5, 5)
             detractors == CountIn(scores, 1, 3)
             total == Len(scores)
         IN  [num |-> (promoters - detractors) * 100, den |-> total]

\* The eNPS entries of the metrics dictionary of one group.
aggregate_metrics(enps_scores) ==
    [scores |-> enps_scores,
     eNPS |-> calculate_enps_score(enps_scores),
     eNPS_Promoters |-> IF Len(enps_scores) > 0
                        THEN CountIn(enps_scores, 9, 10) ELSE 0,
     eNPS_Passives |-> IF Len(enps_scores) > 0
                       THEN CountIn(enps_scores, 7, 8) ELSE 0,
     eNPS_Detractors |-> IF Len(enps_scores) > 0
                         THEN CountIn(enps_scores, 0, 6) ELSE 0]

NoEnpsCall == [scores |-> <<>>, eNPS |-> NaN, eNPS_Promoters |-> -1,
               eNPS_Passives |-> -1, eNPS_Detractors |-> -1]

EnpsInit == enps_call = NoEnpsCall

AggregateGroup(enps_scores) ==
    /\ enps_call = NoEnpsCall
    /\ enps_call' = aggregate_metrics(enps_scores)

EnpsReturn ==
    /\ enps_call # NoEnpsCall
    /\ enps_call' = NoEnpsCall

AggregateGroupStep ==
    /\ enps_call = NoEnpsCall
    /\ \E enps_scores \in ScoreSeries :
          AggregateGroup(enps_scores) /\ UNCHANGED otherThanEnps
EnpsReturnStep == EnpsReturn /\ UNCHANGED otherThanEnps

NextEnps ==
    \/ AggregateGroupStep
    \/ EnpsReturnStep

(***************************************************************************)
(* C27: in every aggregated group the reported promoter, passive and       *)
(* detractor counts partition the group's eNPS scores on the 1-5 scale     *)
(* (promoter = 5, passive = 4, detractor <= 3), and the reported eNPS is   *)
(* (promoters - detractors) / number of scores * 100 of these counts.      *)
(***************************************************************************)
C27_CountsMatchENPS ==
    (enps_call # NoEnpsCall /\ Len(enps_call.scores) > 0) =>
        /\ enps_call.eNPS_Promoters = CountIn(enps_call.scores, 5, 5)
        /\ enps_call.eNPS_Passives = CountIn(enps_call.scores, 4, 4)
        /\ enps_call.eNPS_Detractors = CountIn(enps_call.scores, 1, 3)
        /\ enps_call.eNPS_Promoters + enps_call.eNPS_Passives
              + enps_call.eNPS_Detractors = Len(enps_call.scores)
        /\ enps_call.eNPS.den = Len(enps_call.scores)
        /\ enps_call.eNPS.num =
              (enps_call.eNPS_Promoters - enps_call.eNPS_Detractors) * 100


(***************************************************************************)
(* The objects cached_data hands out.  A DataFrame is an object of the     *)
(* heap: it is either as the fetch built it ("fetched") or changed in      *)
(* place by a caller ("mutated", as load_and_merge_data does to the frames *)
(* it is given).  An entry of the cache holds a reference to an object and *)
(* the time it was stored.                                                 *)
(***************************************************************************)
MaxObjects == 3
ObjectIds == 1..MaxObjects
FetchKeys == {"employees", "survey"}
NoObject == 0
NoRef == [obj |-> NoObject, ts |-> -1]
NoReturn == [key |-> "none", obj |-> NoObject, hit |-> FALSE]

AliasInit ==
    /\ heap = [o \in ObjectIds |-> "free"]
    /\ cache_ref = [k \in FetchKeys |-> NoRef]
    /\ clock = 0
    /\ returned = NoReturn

FreeObjects == {o \in ObjectIds : heap[o] = "free"}
new_object == CHOOSE o \in FreeObjects : \A p \in FreeObjects : o <= p

\* if cache_key in _data_cache ... time.time() - timestamp < CACHE_TTL
RefHit(k) == cache_ref[k] # NoRef /\ clock - cache_ref[k].ts < CACHE_TTL

\* wrapper(*args, **kwargs) of cached_data(key_prefix): a hit returns
\* data.copy(), a new object with the content of the entry's; a miss
\* stores the result of the fetch in the entry and returns that result;
\* the object of the entry it replaces is collected.  One returned frame
\* is followed at a time.
wrapper(k) ==
    /\ returned = NoReturn
    /\ FreeObjects # {}
    /\ IF RefHit(k)
       THEN /\ heap' = [heap EXCEPT ![new_object] = heap[cache_ref[k].obj]]
            /\ returned' = [key |-> k, obj |-> new_object, hit |-> TRUE]
            /\ UNCHANGED cache_ref
       ELSE /\ heap' = [o \in ObjectIds |->
                         IF o = new_object THEN "fetched"
                         ELSE IF o = cache_ref[k].obj THEN "free"
                         ELSE heap[o]]
            /\ cache_ref' = [cache_ref EXCEPT ![k] = [obj |-> new_object, ts |-> clock]]
            /\ returned' = [key |-> k, obj |-> new_object, hit |-> FALSE]
    /\ UNCHANGED clock

\* load_and_merge_data changes the frame it was given in place
\* (df.columns = ..., df['Submission_Date'] = pd.to_datetime(...)).
MutateReturned ==
    /\ returned # NoReturn
    /\ heap[returned.obj] = "fetched"
    /\ heap' = [heap EXCEPT ![returned.obj] = "mutated"]
    /\ UNCHANGED <<cache_ref, clock, returned>>

\* The caller is done with the frame it was given.
DropReturned ==
    /\ returned # NoReturn
    /\ returned' = NoReturn
    /\ heap' = [o \in ObjectIds |->
                  IF o = returned.obj /\ \A k \in FetchKeys : cache_ref[k].obj # o
                  THEN "free" ELSE heap[o]]
    /\ UNCHANGED <<cache_ref, clock>>

\* Time passes.
ClockTick ==
    /\ clock < MaxTicks * TickSeconds
    /\ clock' = clock + TickSeconds
    /\ UNCHANGED <<heap, cache_ref, returned>>

WrapperStep ==
    \E k \in FetchKeys : wrapper(k) /\ UNCHANGED otherThanAlias
MutateReturnedStep == MutateReturned /\ UNCHANGED otherThanAlias
DropReturnedStep == DropReturned /\ UNCHANGED otherThanAlias
ClockTickStep == ClockTick /\ UNCHANGED otherThanAlias

NextAlias ==
    \/ WrapperStep
    \/ MutateReturnedStep
    \/ DropReturnedStep
    \/ ClockTickStep

(***************************************************************************)
(* C28: a result returned by a cached fetch never aliases the cached       *)
(* entry: mutating the returned frame, whether it came from a hit or from  *)
(* the miss that filled the entry, does not change what a later cached     *)
(* call returns within the TTL, which is the frame as fetched.             *)
(***************************************************************************)
C28_MutationNeverReachesEntry ==
    \A k \in FetchKeys :
        RefHit(k) => heap[cache_ref[k].obj] = "fetched"


(***************************************************************************)
(* The handshake of /ws/alerts and the broadcasts that run beside it.      *)
(* inbox is what a client has received, in order.  A check scheduled with  *)
(* create_task broadcasts on the event loop, where the endpoint runs from  *)
(* the return of accept() to the send of the welcome without suspending;   *)
(* a check run with run_until_complete (db_sync.py) broadcasts in the      *)
(* thread of its caller and is interleaved with the endpoint anywhere.     *)
(* A send_text made from a foreign thread either delivers or raises.       *)
(***************************************************************************)
MaxBroadcasts == 2
Origins == {"loop", "worker"}
NoCast == [pc |-> "idle", idx |-> 0, disconnected |-> <<>>]

HsInit ==
    /\ hs_connections = <<>>
    /\ hs_sock = [s \in Socks |-> "new"]
    /\ inbox = [s \in Socks |-> <<>>]
    /\ cast = [o \in Origins |-> NoCast]
    /\ casts = 0

\* The event loop is inside manager.connect / send_personal of an endpoint,
\* between the append and the send of the welcome.
LoopBusy == \E s \in Socks : hs_sock[s] = "appended"

\* The thread of origin o can take a step.
CanRun(o) == o = "worker" \/ ~LoopBusy

\* websocket_alerts_endpoint up to the await in manager.connect
HsAccept(s) ==
    /\ ~LoopBusy
    /\ hs_sock[s] = "new"
    /\ hs_sock' = [hs_sock EXCEPT ![s] = "accepting"]
    /\ UNCHANGED <<hs_connections, inbox, cast, casts>>

\* self.active_connections.append(websocket)
HsAppend(s) ==
    /\ ~LoopBusy
    /\ hs_sock[s] = "accepting"
    /\ hs_connections' = Append(hs_connections, s)
    /\ hs_sock' = [hs_sock EXCEPT ![s] = "appended"]
    /\ UNCHANGED <<inbox, cast, casts>>

\* manager.send_personal({"type": "connection", ...}, websocket)
HsWelcome(s) ==
    /\ hs_sock[s] = "appended"
    /\ inbox' = [inbox EXCEPT ![s] = Append(@, "connection")]
    /\ hs_sock' = [hs_sock EXCEPT ![s] = "open"]
    /\ UNCHANGED <<hs_connections, cast, casts>>

\* broadcast(message) up to its loop; it returns at once on an empty list.
HsBroadcastStart(o) ==
    /\ CanRun(o)
    /\ casts < MaxBroadcasts
    /\ cast[o].pc = "idle"
    /\ casts' = casts + 1
    /\ cast' = [cast EXCEPT ![o] =
                  IF hs_connections = <<>> THEN NoCast
                  ELSE [NoCast EXCEPT !.pc = "loop", !.idx = 1]]
    /\ UNCHANGED <<hs_connections, hs_sock, inbox>>

\* One turn of "for connection in self.active_connections", or the cleanup
\* and the return after the last.
HsBroadcastSend(o, delivered) ==
    /\ CanRun(o)
    /\ cast[o].pc = "loop"
    /\ o = "loop" => delivered
    /\ IF cast[o].idx <= Len(hs_connections)
       THEN LET connection == hs_connections[cast[o].idx]
            IN  /\ inbox' = [inbox EXCEPT ![connection] =
                               IF delivered THEN Append(@, "alert") ELSE @]
                /\ cast' = [cast EXCEPT
                              ![o].idx = @ + 1,
                              ![o].disconnected =
                                  IF delivered THEN @ ELSE Append(@, connection)]
                /\ UNCHANGED hs_connections
       ELSE /\ hs_connections' = Cleanup(hs_connections, cast[o].disconnected)
            /\ cast' = [cast EXCEPT ![o] = NoCast]
            /\ UNCHANGED inbox
    /\ UNCHANGED <<hs_sock, casts>>

HsAcceptStep == \E s \in Socks : HsAccept(s) /\ UNCHANGED otherThanHs
HsAppendStep == \E s \in Socks : HsAppend(s) /\ UNCHANGED otherThanHs
HsWelcomeStep == \E s \in Socks : HsWelcome(s) /\ UNCHANGED otherThanHs
HsBroadcastStartStep == \E o \in Origins : HsBroadcastStart(o) /\ UNCHANGED otherThanHs
HsBroadcastSendStep ==
    \E o \in Origins, delivered \in BOOLEAN :
        HsBroadcastSend(o, delivered) /\ UNCHANGED otherThanHs

NextHs ==
    \/ HsAcceptStep
    \/ HsAppendStep
    \/ HsWelcomeStep
    \/ HsBroadcastStartStep
    \/ HsBroadcastSendStep

(***************************************************************************)
(* C29: the first message a newly connected client receives is the         *)
(* "connection" welcome: no alert broadcast is delivered to it before its  *)
(* welcome, also when a broadcast runs concurrently with the handshake.    *)
(***************************************************************************)
C29_WelcomeFirst ==
    \A s \in Socks : inbox[s] # <<>> => inbox[s][1] = "connection"


(***************************************************************************)
(* The alerts of check_department_risks and the sessions they reach.       *)
(* sent_to records, for a department, the sessions a send of its alert was *)
(* made to since it entered the alerted set; outbox is the list alerts     *)
(* of a check between its loop and its broadcasts.  check_employee_stress  *)
(* has the same shape, with the employee ids and _alerted_employees.       *)
(***************************************************************************)
Sessions == {"s1", "s2"}

AlertInit ==
    /\ risk_of = [d \in Depts |-> "healthy"]
    /\ alerted = {}
    /\ sessions = {}
    /\ outbox = <<>>
    /\ sent_to = [d \in Depts |-> {}]

\* check_department_risks up to its first broadcast: the scan and the
\* loop, which adds the id of an alert to the set when it builds the alert.
CheckDepartments ==
    /\ outbox = <<>>
    /\ LET decision == [d \in Depts |-> DeptBranch(risk_of[d], d \in alerted)]
           F(d) == decision[d] = "alert"
       IN  /\ alerted' = (alerted \cup {d \in Depts : decision[d] = "alert"})
                            \ {d \in Depts : decision[d] = "remove"}
           /\ outbox' = SelectSeq(ScanOrder("dept"), F)
           /\ sent_to' = [d \in Depts |->
                            IF decision[d] \in {"alert", "remove"} THEN {}
                            ELSE sent_to[d]]
    /\ UNCHANGED <<risk_of, sessions>>

\* await connection_manager.broadcast(alert) for the next alert of the
\* list: nothing is sent when there is no connection; a connection whose
\* send raises is removed.
BroadcastNext(reached) ==
    /\ outbox # <<>>
    /\ reached \subseteq sessions
    /\ sent_to' = [sent_to EXCEPT ![Head(outbox)] = @ \cup sessions]
    /\ sessions' = reached
    /\ outbox' = Tail(outbox)
    /\ UNCHANGED <<risk_of, alerted>>

\* A client connects to /ws/alerts.
SessionConnect(s) ==
    /\ s \notin sessions
    /\ sessions' = sessions \cup {s}
    /\ UNCHANGED <<risk_of, alerted, outbox, sent_to>>

\* WebSocketDisconnect: manager.disconnect(websocket)
SessionDisconnect(s) ==
    /\ s \in sessions
    /\ sessions' = sessions \ {s}
    /\ UNCHANGED <<risk_of, alerted, outbox, sent_to>>

\* The sync stores a new overall_risk.
StoreRisk(d, r) ==
    /\ risk_of[d] # r
    /\ risk_of' = [risk_of EXCEPT ![d] = r]
    /\ UNCHANGED <<alerted, sessions, outbox, sent_to>>

CheckDepartmentsStep == CheckDepartments /\ UNCHANGED otherThanAlert
BroadcastNextStep ==
    \E reached \in SUBSET Sessions : BroadcastNext(reached) /\ UNCHANGED otherThanAlert
SessionConnectStep == \E s \in Sessions : SessionConnect(s) /\ UNCHANGED otherThanAlert
SessionDisconnectStep ==
    \E s \in Sessions : SessionDisconnect(s) /\ UNCHANGED otherThanAlert
StoreRiskStep ==
    \E d \in Depts, r \in Risks : StoreRisk(d, r) /\ UNCHANGED otherThanAlert

NextAlert ==
    \/ CheckDepartmentsStep
    \/ BroadcastNextStep
    \/ SessionConnectStep
    \/ SessionDisconnectStep
    \/ StoreRiskStep

(***************************************************************************)
(* C30: whenever a department id is in the alerted set and the broadcast   *)
(* of its alert has run, the alert has been sent to at least one connected *)
(* session: an alert is not recorded as already sent when there was no     *)
(* active connection at broadcast time.                                    *)
(***************************************************************************)
C30_AlertedMeansSent ==
    \A d \in alerted :
        d \notin Range(outbox) => sent_to[d] # {}


Init ==
    /\ UploadInit /\ MonInit /\ WSInit
    /\ NarrInit /\ CacheInit /\ SnapInit
    /\ SyncInit /\ RiskInit /\ FilterInit /\ RatesInit /\ TemporalInit /\ DimsInit /\ DeptInit /\ EnpsInit /\ AliasInit /\ HsInit /\ AlertInit

SpecUpload == Init /\ [][NextUpload]_vars

SpecUploadLive == Init /\ [][NextUpload]_vars /\ JobsRun

SpecMonitor == Init /\ [][NextMonitor]_vars

SpecThreads == Init /\ [][NextThreads]_vars

SpecWS == Init /\ [][NextWS]_vars

SpecNarr == Init /\ [][NextNarr]_vars

SpecCache == Init /\ [][NextCache]_vars

SpecSnap == Init /\ [][NextSnap]_vars

SpecSync == Init /\ [][NextSync]_vars

SpecRisk == Init /\ [][NextRisk]_vars

SpecFilter == Init /\ [][NextFilter]_vars

SpecRates == Init /\ [][NextRates]_vars

SpecTemporal == Init /\ [][NextTemporal]_vars

SpecDims == Init /\ [][NextDims]_vars

SpecDept == Init /\ [][NextDept]_vars

SpecEnps == Init /\ [][NextEnps]_vars

SpecAlias == Init /\ [][NextAlias]_vars

SpecHs == Init /\ [][NextHs]_vars

SpecAlert == Init /\ [][NextAlert]_vars

====
